---- MODULE Spec2Model ----
(***************************************************************************)
(* A model of the multi-layer syntax highlighter in highlight/src/lib.rs.  *)
(*                                                                         *)
(* The Highlighter is an iterator: every call of next() is one atomic     *)
(* action (CallNext).  The syntax trees, which the external parser        *)
(* produces, are data: a tree is a sequence of nodes in document          *)
(* (pre-)order, each with its parent, its byte span, its kind and the     *)
(* Properties the property sheet attaches to it.  Source text is a        *)
(* sequence of bytes (0..255); Rust's Option is a sequence of length 0    *)
(* (None) or 1 (Some).                                                     *)
(***************************************************************************)
EXTENDS Integers, Sequences, FiniteSets, TLC

VARIABLES
    source,                  \* Highlighter.source: the bytes being highlighted
    injection_callback,      \* Highlighter.injection_callback: name -> language
    layers,                  \* Highlighter.layers
    source_offset,           \* Highlighter.source_offset
    max_opaque_layer_depth,  \* Highlighter.max_opaque_layer_depth
    utf8_error_len,          \* Highlighter.utf8_error_len (Option)
    operation_count,         \* Highlighter.operation_count
    cancellation_flag,       \* Highlighter.cancellation_flag: None, or Some(value of the atomic)
    result,                  \* what the last call of next() returned
    log,                     \* history: events returned, callbacks made, layers installed
    calls,                   \* history: number of next() calls made
    calls_since_cancel,      \* history: next() calls made since the flag went nonzero
    root_tree,               \* the tree Highlighter::new parsed for the source
    pure                     \* inputs and output of a pure function under check

vars == <<source, injection_callback, layers, source_offset, max_opaque_layer_depth,
          utf8_error_len, operation_count, cancellation_flag, result, log, calls,
          calls_since_cancel, root_tree, pure>>

----------------------------------------------------------------------------
(* Bounds of the model and constants of the program *)

\* const CANCELLATION_CHECK_INTERVAL: usize = 100;
CANCELLATION_CHECK_INTERVAL == 100

\* usize::MAX, used as the open end of the root layer's range.  No arithmetic
\* is done on it; it only has to exceed every offset of the model.
USIZE_MAX == 1000000

\* Longest source text of the UTF-8 family of inputs.
MaxSourceLen == 4

\* How many next() calls the cancellation family follows.
MaxCalls == 204

\* Largest byte offset used for the inputs of intersect_ranges.
MaxRangeByte == 4

\* The greatest number of nested forms of a tree path.
MaxPathDepth == 2

\* The longest injection-language and injection-content lists of a sheet.
MaxListLen == 2

\* The most injections one node declares in the skipped-injection family.
MaxInjections == 2

\* The longest event stream highlight_html is given.
MaxEvents == 4

\* How many times a Highlight is converted to its wire name and back.
MaxRoundTrips == 2

\* The most nodes of a tree a single layer walks over.
MaxWalkNodes == 4

----------------------------------------------------------------------------
(* Option, sequences, bytes *)

None == <<>>
Some(x) == <<x>>
IsSome(o) == o # <<>>
Unwrap(o) == o[1]
\* Option::or
OptOr(a, b) == IF IsSome(a) THEN a ELSE b

Min(a, b) == IF a < b THEN a ELSE b
Max(a, b) == IF a > b THEN a ELSE b

InsertAt(s, i, x) == SubSeq(s, 1, i - 1) \o <<x>> \o SubSeq(s, i, Len(s))

RECURSIVE Concat(_)
Concat(ss) == IF ss = <<>> THEN <<>> ELSE Head(ss) \o Concat(Tail(ss))

\* Byte-wise lexicographic order of two strings, as str's Ord: -1, 0 or 1.
RECURSIVE StrCmp(_, _)
StrCmp(a, b) ==
    IF a = <<>> /\ b = <<>> THEN 0
    ELSE IF a = <<>> THEN -1
    ELSE IF b = <<>> THEN 1
    ELSE IF Head(a) < Head(b) THEN -1
    ELSE IF Head(a) > Head(b) THEN 1
    ELSE StrCmp(Tail(a), Tail(b))

\* "\u{FFFD}" in UTF-8.
REPLACEMENT_CHARACTER_TEXT == <<239, 191, 189>>

\* NodeSource::bytes(start, end) and max_len() of a flat byte buffer.
bytes(src, start, end) == SubSeq(src, start + 1, Min(end, Len(src)))
max_len(src) == Len(src)

----------------------------------------------------------------------------
(* UTF-8 validation: cow::decode_utf8 wraps str::from_utf8, whose error    *)
(* reports valid_up_to() and error_len() (None: the input ends inside a    *)
(* sequence).                                                              *)

IsContinuation(b) == b >= 128 /\ b <= 191

utf8_char_width(b) ==
    IF b < 128 THEN 1
    ELSE IF b >= 194 /\ b <= 223 THEN 2
    ELSE IF b >= 224 /\ b <= 239 THEN 3
    ELSE IF b >= 240 /\ b <= 244 THEN 4
    ELSE 0

\* The second byte of a 3- or 4-byte sequence has a range that depends on the first.
SecondByteOk(first, b) ==
    \/ first = 224 /\ b >= 160 /\ b <= 191
    \/ first >= 225 /\ first <= 236 /\ IsContinuation(b)
    \/ first = 237 /\ b >= 128 /\ b <= 159
    \/ first >= 238 /\ first <= 239 /\ IsContinuation(b)
    \/ first = 240 /\ b >= 144 /\ b <= 191
    \/ first >= 241 /\ first <= 243 /\ IsContinuation(b)
    \/ first = 244 /\ b >= 128 /\ b <= 143

Utf8Ok == [ok |-> TRUE, valid_up_to |-> 0, error_len |-> None]
Utf8Err(valid, len) == [ok |-> FALSE, valid_up_to |-> valid, error_len |-> len]

\* The sequence starting at index i (1-based) of v: its length when valid,
\* otherwise the error str::from_utf8 reports for it.
Utf8Step(v, i) ==
    LET first == v[i]
        w == utf8_char_width(first)
        n == Len(v)
    IN  IF w = 0 THEN Utf8Err(i - 1, Some(1))
        ELSE IF w = 1 THEN [ok |-> TRUE, valid_up_to |-> 1, error_len |-> None]
        ELSE IF i + 1 > n THEN Utf8Err(i - 1, None)
        ELSE IF w = 2 THEN
            IF IsContinuation(v[i + 1])
            THEN [ok |-> TRUE, valid_up_to |-> 2, error_len |-> None]
            ELSE Utf8Err(i - 1, Some(1))
        ELSE IF ~SecondByteOk(first, v[i + 1]) THEN Utf8Err(i - 1, Some(1))
        ELSE IF i + 2 > n THEN Utf8Err(i - 1, None)
        ELSE IF ~IsContinuation(v[i + 2]) THEN Utf8Err(i - 1, Some(2))
        ELSE IF w = 3 THEN [ok |-> TRUE, valid_up_to |-> 3, error_len |-> None]
        ELSE IF i + 3 > n THEN Utf8Err(i - 1, None)
        ELSE IF ~IsContinuation(v[i + 3]) THEN Utf8Err(i - 1, Some(3))
        ELSE [ok |-> TRUE, valid_up_to |-> 4, error_len |-> None]

RECURSIVE run_utf8_validation(_, _)
run_utf8_validation(v, i) ==
    IF i > Len(v) THEN Utf8Ok
    ELSE LET s == Utf8Step(v, i)
         IN  IF s.ok THEN run_utf8_validation(v, i + s.valid_up_to) ELSE s

decode_utf8(input) == run_utf8_validation(input, 1)

----------------------------------------------------------------------------
(* Syntax trees and the property sheet (the external parser's output) *)

Point(row, column) == <<row, column>>

\* The position of a byte offset; the documents of the model have one line.
PositionOf(byte) == Point(0, byte)

Range(start_byte, end_byte, start_point, end_point) ==
    [start_byte |-> start_byte, end_byte |-> end_byte,
     start_point |-> start_point, end_point |-> end_point]

ByteRange(a, b) == Range(a, b, PositionOf(a), PositionOf(b))

\* struct Properties
Properties(highlight, highlight_nonlocal, injections, local_scope, local_def, local_ref) ==
    [highlight |-> highlight, highlight_nonlocal |-> highlight_nonlocal,
     injections |-> injections, local_scope |-> local_scope,
     local_definition |-> local_def, local_reference |-> local_ref]

NoProperties == Properties(None, None, <<>>, None, FALSE, FALSE)

\* A node of a tree: parent is the index of its parent in the tree, 0 for the root.
TreeNode(parent, start_byte, end_byte, kind_id, props) ==
    [parent |-> parent, start_byte |-> start_byte, end_byte |-> end_byte,
     kind_id |-> kind_id, props |-> props]

\* Node::children(): the indices of n's children, in document order.
NodeChildren(tree, n) ==
    LET RECURSIVE From(_)
        From(i) == IF i > Len(tree) THEN <<>>
                   ELSE IF tree[i].parent = n THEN <<i>> \o From(i + 1)
                   ELSE From(i + 1)
    IN  From(n + 1)

\* TreeCursor::goto_first_child, goto_next_sibling, goto_parent: the node the
\* cursor moves to, or 0 when it cannot move.
goto_first_child(tree, n) ==
    LET c == NodeChildren(tree, n) IN IF c = <<>> THEN 0 ELSE c[1]

goto_next_sibling(tree, n) ==
    IF tree[n].parent = 0 THEN 0
    ELSE LET later == {i \in (n + 1)..Len(tree) : tree[i].parent = tree[n].parent}
         IN  IF later = {} THEN 0 ELSE CHOOSE i \in later : \A j \in later : i <= j

goto_parent(tree, n) == tree[n].parent

----------------------------------------------------------------------------
(* Layer: one syntax tree, its cursor, its ranges and its scope stack *)

\* struct Scope
Scope(inherits, local_defs) == [inherits |-> inherits, local_defs |-> local_defs]

\* Layer::new
LayerNew(tree, ranges, depth, opaque) ==
    [tree |-> tree, cursor |-> 1, ranges |-> ranges, depth |-> depth, opaque |-> opaque,
     at_node_end |-> FALSE, scope_stack |-> <<Scope(FALSE, <<>>)>>,
     local_highlight |-> None]

\* cursor.node() and cursor.node_properties()
node(layer) == layer.tree[layer.cursor]
node_properties(layer) == node(layer).props

\* Layer::offset
offset(layer) ==
    IF layer.at_node_end THEN node(layer).end_byte ELSE node(layer).start_byte

\* Ordering of two values as Ord::cmp: "Less", "Equal" or "Greater".
OrdCmp(a, b) == IF a < b THEN "Less" ELSE IF a > b THEN "Greater" ELSE "Equal"
BoolCmp(a, b) == OrdCmp(IF a THEN 1 ELSE 0, IF b THEN 1 ELSE 0)
ThenWith(first, second) == IF first = "Equal" THEN second ELSE first

\* Faulty variant of cmp: at one offset a node start comes before a node end.
cmpStartsFirst(self, other) ==
    ThenWith(OrdCmp(offset(self), offset(other)),
             ThenWith(BoolCmp(self.at_node_end, other.at_node_end),
                      OrdCmp(self.depth, other.depth)))

\* Layer::cmp
cmp(self, other) ==
    ThenWith(OrdCmp(offset(self), offset(other)),
             ThenWith(BoolCmp(other.at_node_end, self.at_node_end),
                      OrdCmp(self.depth, other.depth)))

\* Faulty variant of binary_search_by_key: a key that is there is not found.
BinarySearchByKeyNeverFound(local_defs, text) ==
    [ok |-> FALSE,
     i |-> Cardinality({i \in 1..Len(local_defs) : StrCmp(local_defs[i][1], text) < 0})]

\* [T]::binary_search_by_key on local_defs, which holds no key twice:
\* Ok(i) when local_defs[i] has the key, else Err(i), i the (0-based) place to insert.
binary_search_by_key(local_defs, text) ==
    LET found == {i \in 1..Len(local_defs) : local_defs[i][1] = text}
        less == {i \in 1..Len(local_defs) : StrCmp(local_defs[i][1], text) < 0}
    IN  IF found # {} THEN [ok |-> TRUE, i |-> (CHOOSE i \in found : TRUE) - 1]
        ELSE [ok |-> FALSE, i |-> Cardinality(less)]

\* Faulty variant of LookupReference: the search goes on past a scope that does not inherit.
RECURSIVE LookupReferencePastScopes(_, _, _)
LookupReferencePastScopes(scope_stack, k, text) ==
    IF k = 0 THEN None
    ELSE LET scope == scope_stack[k]
             r == binary_search_by_key(scope.local_defs, text)
         IN  IF r.ok THEN Some(scope.local_defs[r.i + 1][2])
             ELSE LookupReferencePastScopes(scope_stack, k - 1, text)

\* The reference lookup of enter_node: the scope stack from the innermost scope
\* outwards, index k downto 1.
RECURSIVE LookupReference(_, _, _)
LookupReference(scope_stack, k, text) ==
    IF k = 0 THEN None
    ELSE LET scope == scope_stack[k]
             r == binary_search_by_key(scope.local_defs, text)
         IN  IF r.ok THEN Some(scope.local_defs[r.i + 1][2])
             ELSE IF ~scope.inherits THEN None
             ELSE LookupReference(scope_stack, k - 1, text)

\* Layer::enter_node
enter_node(self, src) ==
    LET props == node_properties(self)
        node_bytes == bytes(src, node(self).start_byte, node(self).end_byte)
        node_text == IF (props.local_definition \/ props.local_reference)
                        /\ decode_utf8(node_bytes).ok
                     THEN Some(node_bytes) ELSE None
        n == Len(self.scope_stack)
        after_locals ==
            IF props.local_definition THEN
                IF IsSome(node_text) /\ n > 0 /\ IsSome(props.highlight) THEN
                    LET inner_scope == self.scope_stack[n]
                        r == binary_search_by_key(inner_scope.local_defs, Unwrap(node_text))
                        defs == IF r.ok THEN inner_scope.local_defs
                                ELSE InsertAt(inner_scope.local_defs, r.i + 1,
                                              <<Unwrap(node_text), Unwrap(props.highlight)>>)
                    IN  [self EXCEPT !.local_highlight = props.highlight,
                                     !.scope_stack[n].local_defs = defs]
                ELSE self
            ELSE IF props.local_reference THEN
                IF IsSome(node_text) THEN
                    LET hit == LookupReference(self.scope_stack, n, Unwrap(node_text))
                    IN  IF IsSome(hit) THEN [self EXCEPT !.local_highlight = hit] ELSE self
                ELSE self
            ELSE self
    IN  IF IsSome(props.local_scope)
        THEN [after_locals EXCEPT !.scope_stack =
                 Append(after_locals.scope_stack, Scope(Unwrap(props.local_scope), <<>>))]
        ELSE after_locals

\* Layer::leave_node (Vec::pop of an empty vector changes nothing)
leave_node(self) ==
    IF IsSome(node_properties(self).local_scope) /\ self.scope_stack # <<>>
    THEN [self EXCEPT !.scope_stack = SubSeq(self.scope_stack, 1, Len(self.scope_stack) - 1)]
    ELSE self

\* Faulty variant of advance: at_node_end is not reset when the cursor moves to
\* the next sibling.
AdvanceAtEndOfSibling(self0, src) ==
    LET self == [self0 EXCEPT !.local_highlight = None]
    IN  IF self.at_node_end THEN
            LET left == leave_node(self)
                sibling == goto_next_sibling(left.tree, left.cursor)
                parent == goto_parent(left.tree, left.cursor)
            IN  IF sibling # 0 THEN
                    [layer |-> enter_node([left EXCEPT !.cursor = sibling], src),
                     ret |-> TRUE, left |-> <<self.cursor>>, entered |-> <<sibling>>]
                ELSE IF parent = 0
                THEN [layer |-> left, ret |-> FALSE, left |-> <<self.cursor>>, entered |-> <<>>]
                ELSE [layer |-> [left EXCEPT !.cursor = parent], ret |-> TRUE,
                      left |-> <<self.cursor>>, entered |-> <<>>]
        ELSE
            LET child == goto_first_child(self.tree, self.cursor)
            IN  IF child # 0
                THEN [layer |-> enter_node([self EXCEPT !.cursor = child], src), ret |-> TRUE,
                      left |-> <<>>, entered |-> <<child>>]
                ELSE [layer |-> [self EXCEPT !.at_node_end = TRUE], ret |-> TRUE,
                      left |-> <<>>, entered |-> <<>>]

\* Layer::advance: the layer after the call and the boolean it returns; left and
\* entered are the nodes leave_node and enter_node were called at.
advance(self0, src) ==
    LET self == [self0 EXCEPT !.local_highlight = None]
    IN  IF self.at_node_end THEN
            LET left == leave_node(self)
                sibling == goto_next_sibling(left.tree, left.cursor)
                parent == goto_parent(left.tree, left.cursor)
            IN  IF sibling # 0 THEN
                    [layer |-> [enter_node([left EXCEPT !.cursor = sibling], src)
                                   EXCEPT !.at_node_end = FALSE],
                     ret |-> TRUE, left |-> <<self.cursor>>, entered |-> <<sibling>>]
                ELSE IF parent = 0
                THEN [layer |-> left, ret |-> FALSE, left |-> <<self.cursor>>, entered |-> <<>>]
                ELSE [layer |-> [left EXCEPT !.cursor = parent], ret |-> TRUE,
                      left |-> <<self.cursor>>, entered |-> <<>>]
        ELSE
            LET child == goto_first_child(self.tree, self.cursor)
            IN  IF child # 0
                THEN [layer |-> enter_node([self EXCEPT !.cursor = child], src), ret |-> TRUE,
                      left |-> <<>>, entered |-> <<child>>]
                ELSE [layer |-> [self EXCEPT !.at_node_end = TRUE], ret |-> TRUE,
                      left |-> <<>>, entered |-> <<>>]

----------------------------------------------------------------------------
(* Tree paths and injections *)

\* enum TreeStep
StepChild(index, kinds) == [step |-> "Child", index |-> index, kinds |-> kinds]
StepChildren(kinds) == [step |-> "Children", index |-> 0, kinds |-> kinds]
StepNext(kinds) == [step |-> "Next", index |-> 0, kinds |-> kinds]

\* enum InjectionLanguage
Literal(s) == [type |-> "Literal", s |-> s, steps |-> <<>>]
TreePath(steps) == [type |-> "TreePath", s |-> <<>>, steps |-> steps]

\* struct Injection
Injection(language, content, includes_children) ==
    [language |-> language, content |-> content, includes_children |-> includes_children]

KindMatches(tree, child, kinds) == kinds = None \/ tree[child].kind_id \in Unwrap(kinds)

\* What one node contributes in process_tree_step.
StepOfNode(tree, step, n) ==
    LET children == NodeChildren(tree, n)
    IN  IF step.step = "Child" THEN
            LET index == IF step.index >= 0 THEN step.index ELSE Len(children) + step.index
            IN  IF index >= 0 /\ index < Len(children)
                   /\ KindMatches(tree, children[index + 1], step.kinds)
                THEN <<children[index + 1]>> ELSE <<>>
        ELSE SelectSeq(children, LAMBDA c : KindMatches(tree, c, step.kinds))

\* Highlighter::process_tree_step: the node buffer after the step.  A Next step
\* reaches unimplemented!() for the first node of the buffer.
process_tree_step(tree, step, buffer) ==
    IF buffer.panicked THEN buffer
    ELSE IF step.step = "Next" /\ buffer.nodes # <<>> THEN [buffer EXCEPT !.panicked = TRUE]
    ELSE [buffer EXCEPT !.nodes =
             Concat([i \in 1..Len(buffer.nodes) |-> StepOfNode(tree, step, buffer.nodes[i])])]

\* Highlighter::nodes_for_tree_path
nodes_for_tree_path(tree, n, steps) ==
    LET RECURSIVE Run(_, _)
        Run(buffer, k) == IF k > Len(steps) THEN buffer
                          ELSE Run(process_tree_step(tree, steps[k], buffer), k + 1)
    IN  Run([nodes |-> <<n>>, panicked |-> FALSE], 1)

\* Highlighter::injection_language_string: Some(name), or None; panicked when the
\* tree path runs into a Next step.
injection_language_string(src, tree, n, language) ==
    IF language.type = "Literal" THEN [name |-> Some(language.s), panicked |-> FALSE]
    ELSE LET found == nodes_for_tree_path(tree, n, language.steps)
         IN  IF found.panicked THEN [name |-> None, panicked |-> TRUE]
             ELSE IF found.nodes = <<>> THEN [name |-> None, panicked |-> FALSE]
             ELSE LET first == tree[found.nodes[1]]
                      text == bytes(src, first.start_byte, first.end_byte)
                  IN  [name |-> IF decode_utf8(text).ok THEN Some(text) ELSE None,
                       panicked |-> FALSE]

----------------------------------------------------------------------------
(* Highlighter::intersect_ranges *)

\* Faulty variant of ExcludedRanges: the children are excluded whatever includes_children is.
ExcludedRangesAlways(tree, n, includes_children) ==
    LET children == NodeChildren(tree, n)
    IN  [i \in 1..Len(children) |->
            ByteRange(tree[children[i]].start_byte, tree[children[i]].end_byte)]
        \o <<Range(tree[n].end_byte, USIZE_MAX, PositionOf(tree[n].end_byte),
                   Point(USIZE_MAX, USIZE_MAX))>>

\* The ranges a content node excludes: its children unless includes_children,
\* then the range that follows the node.
ExcludedRanges(tree, n, includes_children) ==
    LET children == NodeChildren(tree, n)
        following_range == Range(tree[n].end_byte, USIZE_MAX, PositionOf(tree[n].end_byte),
                                 Point(USIZE_MAX, USIZE_MAX))
    IN  (IF includes_children THEN <<>>
         ELSE [i \in 1..Len(children) |->
                  ByteRange(tree[children[i]].start_byte, tree[children[i]].end_byte)])
        \o <<following_range>>

\* Faulty variant of IsNonEmpty: an empty range passes.
IsNonEmptyOrEmpty(start_byte, end_byte) == start_byte <= end_byte

\* The test before each push of intersect_ranges: the range is not empty.
IsNonEmpty(start_byte, end_byte) == start_byte < end_byte

\* The while loop of intersect_ranges on one candidate range.  st holds the
\* result so far, the index pi of the current parent range, and whether the
\* function has returned because no parent range is left.
RECURSIVE IntersectWhile(_, _, _)
IntersectWhile(parent_ranges, st, range) ==
    LET parent_range == parent_ranges[st.pi]
    IN  IF ~(parent_range.start_byte <= range.end_byte) THEN st
        ELSE
            LET overlaps == parent_range.end_byte > range.start_byte
                clipped == IF overlaps /\ range.start_byte < parent_range.start_byte
                           THEN [range EXCEPT !.start_byte = parent_range.start_byte,
                                              !.start_point = parent_range.start_point]
                           ELSE range
            IN  IF overlaps /\ ~(parent_range.end_byte < clipped.end_byte) THEN
                    IF IsNonEmpty(clipped.start_byte, clipped.end_byte)
                    THEN [st EXCEPT !.result = Append(@, clipped)] ELSE st
                ELSE
                    LET pushed == IF overlaps /\ IsNonEmpty(clipped.start_byte,
                                                            parent_range.end_byte)
                                  THEN Append(st.result,
                                              Range(clipped.start_byte, parent_range.end_byte,
                                                    clipped.start_point, parent_range.end_point))
                                  ELSE st.result
                        rest == IF overlaps
                                THEN [clipped EXCEPT !.start_byte = parent_range.end_byte,
                                                     !.start_point = parent_range.end_point]
                                ELSE range
                    IN  IF st.pi < Len(parent_ranges)
                        THEN IntersectWhile(parent_ranges,
                                            [st EXCEPT !.result = pushed, !.pi = @ + 1], rest)
                        ELSE [st EXCEPT !.result = pushed, !.returned = TRUE]

\* The loop over the excluded ranges of one content node.
RECURSIVE IntersectExcluded(_, _, _, _, _)
IntersectExcluded(parent_ranges, st, excluded, k, preceding_range) ==
    IF st.returned \/ k > Len(excluded) THEN st
    ELSE LET excluded_range == excluded[k]
             range == Range(preceding_range.end_byte, excluded_range.start_byte,
                            preceding_range.end_point, excluded_range.start_point)
             after == IF range.end_byte < parent_ranges[st.pi].start_byte THEN st
                      ELSE IntersectWhile(parent_ranges, st, range)
         IN  IntersectExcluded(parent_ranges, after, excluded, k + 1, excluded_range)

\* The loop over the content nodes.
RECURSIVE IntersectNodes(_, _, _, _, _, _)
IntersectNodes(parent_ranges, st, tree, nodes, j, includes_children) ==
    IF st.returned \/ j > Len(nodes) THEN st
    ELSE LET n == tree[nodes[j]]
             preceding_range == Range(0, n.start_byte, Point(0, 0), PositionOf(n.start_byte))
             after == IntersectExcluded(parent_ranges, st,
                                        ExcludedRanges(tree, nodes[j], includes_children),
                                        1, preceding_range)
         IN  IntersectNodes(parent_ranges, after, tree, nodes, j + 1, includes_children)

\* Highlighter::intersect_ranges; panicked when parent_ranges is empty (the expect).
intersect_ranges(parent_ranges, tree, nodes, includes_children) ==
    IF parent_ranges = <<>> THEN [ranges |-> <<>>, panicked |-> TRUE]
    ELSE [ranges |-> IntersectNodes(parent_ranges,
                                    [result |-> <<>>, pi |-> 1, returned |-> FALSE],
                                    tree, nodes, 1, includes_children).result,
          panicked |-> FALSE]

----------------------------------------------------------------------------
(* The parser and the injected languages (external collaborators) *)

\* What injection_callback returns for a name: a language and its property
\* sheet.  compatible: whether Parser::set_language accepts the language.
\* The sheet gives root_props to the root node of a tree of the language and
\* token_props (when Some) to its leaves.
Language(compatible, root_props, token_props) ==
    [compatible |-> compatible, root_props |-> root_props, token_props |-> token_props]

\* Parser::parse_source with included ranges: the root node spans the ranges;
\* when the sheet styles tokens, the tree has one leaf for every range.
parse_source(language, src, ranges) ==
    LET clip(b) == Min(b, max_len(src))
        root == TreeNode(0, clip(ranges[1].start_byte), clip(ranges[Len(ranges)].end_byte),
                         0, language.root_props)
    IN  <<root>> \o
        (IF language.token_props = None THEN <<>>
         ELSE [i \in 1..Len(ranges) |->
                  TreeNode(1, clip(ranges[i].start_byte), clip(ranges[i].end_byte), 1,
                           Unwrap(language.token_props))])

\* The choices the environment makes during one next() call: which of several
\* equal elements a binary search reports (there is a search only when a
\* language can be injected), and whether a parse is cancelled (only when the
\* cancellation flag is nonzero).
Oracles(callback, flag) ==
    [search_last : IF DOMAIN callback = {} THEN {FALSE} ELSE BOOLEAN,
     parse_cancelled : IF IsSome(flag) /\ Unwrap(flag) # 0 THEN BOOLEAN ELSE {FALSE}]

----------------------------------------------------------------------------
(* Highlighter *)

\* enum HighlightEvent
Source(text) == [kind |-> "Source", text |-> text, highlight |-> None]
HighlightStart(h) == [kind |-> "HighlightStart", text |-> <<>>, highlight |-> Some(h)]
HighlightEnd == [kind |-> "HighlightEnd", text |-> <<>>, highlight |-> None]
NoEvent == [kind |-> "", text |-> <<>>, highlight |-> None]

\* Option<Result<HighlightEvent, Error>> as next() returns it; "Panic" when the
\* call does not return.
RetOk(event) == [tag |-> "Ok", event |-> event, err |-> ""]
RetErr(error) == [tag |-> "Err", event |-> NoEvent, err |-> error]
RetNone == [tag |-> "None", event |-> NoEvent, err |-> ""]
RetPanic == [tag |-> "Panic", event |-> NoEvent, err |-> ""]

\* An entry of the history: op is the kind of a returned event, "callback" for
\* a call of injection_callback, or "install" for a layer inserted by add_layer.
\* offset and depth are those of the head layer the entry comes from (of the
\* new layer's depth for "callback" and "install"); node is the head's current
\* node; covered tells whether a live opaque layer deeper than the head covered
\* the offset at that moment.
LogEntry(call, op, highlight, text, off, depth, covered, name, n) ==
    [call |-> call, op |-> op, highlight |-> highlight, text |-> text, offset |-> off,
     depth |-> depth, covered |-> covered, name |-> name, node |-> n]

\* Whether offset off, reached at a node start or at a node end, lies in ranges.
InRanges(ranges, off, at_end) ==
    \E i \in 1..Len(ranges) :
        IF at_end THEN ranges[i].start_byte < off /\ off <= ranges[i].end_byte
        ELSE ranges[i].start_byte <= off /\ off < ranges[i].end_byte

\* History only: a live opaque layer deeper than the head covers the head's position.
Covered(ls) ==
    \E i \in 2..Len(ls) :
        /\ ls[i].opaque
        /\ ls[i].depth > ls[1].depth
        /\ InRanges(ls[i].ranges, offset(ls[1]), ls[1].at_node_end)

\* Faulty variant of Highlighter::new: the root layer is made with no range.
HighlighterNewWithoutRange(src, tree, callback, flag) ==
    [source |-> src, injection_callback |-> callback, source_offset |-> 0,
     operation_count |-> 0, utf8_error_len |-> None, max_opaque_layer_depth |-> 0,
     cancellation_flag |-> flag,
     layers |-> <<LayerNew(tree, <<>>, 0, TRUE)>>,
     log |-> <<>>, calls |-> 0]

\* Highlighter::new, after the root tree was parsed.
HighlighterNew(src, tree, callback, flag) ==
    [source |-> src, injection_callback |-> callback, source_offset |-> 0,
     operation_count |-> 0, utf8_error_len |-> None, max_opaque_layer_depth |-> 0,
     cancellation_flag |-> flag,
     layers |-> <<LayerNew(tree,
                           <<Range(0, USIZE_MAX, Point(0, 0), Point(USIZE_MAX, USIZE_MAX))>>,
                           0, TRUE)>>,
     log |-> <<>>, calls |-> 0]

\* Faulty variant of the valid-prefix arm: source_offset is moved to the end of
\* the input, as in the arm for valid input, with the error still pending.
EmitValidPrefixToEnd(self, input, valid_len, error_len) ==
    [self |-> [self EXCEPT !.utf8_error_len = Some(error_len),
                           !.source_offset = @ + Len(input)],
     event |-> Source(SubSeq(input, 1, valid_len))]

\* The valid-prefix arm of emit_source (valid_len > 0).
EmitValidPrefix(self, input, valid_len, error_len) ==
    [self |-> [self EXCEPT !.utf8_error_len = Some(error_len)],
     event |-> Source(SubSeq(input, 1, valid_len))]

\* Highlighter::emit_source
emit_source(self, next_offset) ==
    LET input == bytes(self.source, self.source_offset, next_offset)
        decoded == decode_utf8(input)
        out == IF decoded.ok THEN
                   [self |-> [self EXCEPT !.source_offset = next_offset],
                    event |-> Source(input)]
               ELSE IF decoded.valid_up_to > 0 THEN
                   EmitValidPrefix(self, input, decoded.valid_up_to, Unwrap(decoded.error_len))
               ELSE
                   [self |-> [self EXCEPT !.source_offset = @ + Unwrap(decoded.error_len)],
                    event |-> Source(REPLACEMENT_CHARACTER_TEXT)]
    IN  IF ~decoded.ok /\ decoded.error_len = None THEN [self |-> self, ret |-> RetNone]
        ELSE [self |-> [out.self EXCEPT !.log =
                           Append(@, LogEntry(self.calls, "Source", None, out.event.text,
                                              self.source_offset, 0, FALSE, <<>>, 0))],
              ret |-> RetOk(out.event)]

\* Faulty variant of binary_search_by: the comparator is turned round, as in
\* binary_search_by(|l| layer.cmp(l)).
BinarySearchTurnedRound(ls, layer, search_last) ==
    LET equal == {i \in 1..Len(ls) : cmp(layer, ls[i]) = "Equal"}
        less == {i \in 1..Len(ls) : cmp(layer, ls[i]) = "Less"}
    IN  IF equal = {} THEN Cardinality(less) + 1
        ELSE IF search_last THEN CHOOSE i \in equal : \A j \in equal : j <= i
        ELSE CHOOSE i \in equal : \A j \in equal : i <= j

\* self.layers.binary_search_by(|l| l.cmp(&layer)) on the sorted list: the
\* 1-based place where the layer is inserted.  When elements compare Equal the
\* search may report any of them.
binary_search_by(ls, layer, search_last) ==
    LET equal == {i \in 1..Len(ls) : cmp(ls[i], layer) = "Equal"}
        less == {i \in 1..Len(ls) : cmp(ls[i], layer) = "Less"}
    IN  IF equal = {} THEN Cardinality(less) + 1
        ELSE IF search_last THEN CHOOSE i \in equal : \A j \in equal : j <= i
        ELSE CHOOSE i \in equal : \A j \in equal : i <= j

\* Faulty variant of RaiseOpaqueDepth: a layer that is not opaque raises the depth too.
RaiseDepthOfAnyLayer(max_depth, depth, includes_children) ==
    IF depth > max_depth THEN depth ELSE max_depth

\* The opaque-depth update of add_layer.
RaiseOpaqueDepth(max_depth, depth, includes_children) ==
    IF includes_children /\ depth > max_depth THEN depth ELSE max_depth

\* Faulty variant of CallInjectionCallback: a name the callback does not know
\* gets the language of a name it knows.
CallInjectionCallbackAnyName(callback, language_string) ==
    IF language_string \in DOMAIN callback THEN Some(callback[language_string])
    ELSE IF DOMAIN callback = {} THEN None
    ELSE Some(callback[CHOOSE name \in DOMAIN callback : TRUE])

\* (self.injection_callback)(language_string): what the callback returns.
CallInjectionCallback(callback, language_string) ==
    IF language_string \in DOMAIN callback THEN Some(callback[language_string]) ELSE None

\* Highlighter::add_layer: the highlighter after the call and the Option<Error>.
add_layer(self, language_string, ranges, depth, includes_children, oracle) ==
    LET head == self.layers[1]
        called == [self EXCEPT !.log =
                      Append(@, LogEntry(self.calls, "callback", None, <<>>, offset(head),
                                         depth, Covered(self.layers), language_string,
                                         head.cursor))]
        found == CallInjectionCallback(self.injection_callback, language_string)
    IN  IF found = None THEN [self |-> called, err |-> None]
        ELSE IF ~Unwrap(found).compatible THEN [self |-> called, err |-> Some("InvalidLanguage")]
        ELSE IF oracle.parse_cancelled /\ IsSome(self.cancellation_flag)
                /\ Unwrap(self.cancellation_flag) # 0
        THEN [self |-> called, err |-> Some("Cancelled")]
        ELSE
            LET tree == parse_source(Unwrap(found), self.source, ranges)
                layer == LayerNew(tree, ranges, depth, includes_children)
                i == binary_search_by(self.layers, layer, oracle.search_last)
            IN  [self |-> [called EXCEPT
                              !.max_opaque_layer_depth =
                                  RaiseOpaqueDepth(@, depth, includes_children),
                              !.layers = InsertAt(@, i, layer),
                              !.log = Append(@, LogEntry(self.calls, "install", None, <<>>,
                                                         offset(head), depth,
                                                         Covered(self.layers),
                                                         language_string, head.cursor))],
                 err |-> None]

\* Highlighter::remove_first_layer
remove_first_layer(self) ==
    LET layer == self.layers[1]
        rest == Tail(self.layers)
        opaque_depths == {rest[i].depth : i \in {j \in 1..Len(rest) : rest[j].opaque}}
    IN  [self EXCEPT
            !.layers = rest,
            !.max_opaque_layer_depth =
                IF layer.opaque /\ layer.depth = self.max_opaque_layer_depth
                THEN IF opaque_depths = {} THEN 0
                     ELSE CHOOSE d \in opaque_depths : \A e \in opaque_depths : e <= d
                ELSE @]

\* Faulty variant of SwapForward: the advanced head stays first.
SwapForwardNever(ls, index) == ls

\* The re-sort of next(): the advanced head is swapped forward while it is
\* Greater than its successor.
RECURSIVE SwapForward(_, _)
SwapForward(ls, index) ==
    IF index + 1 <= Len(ls) /\ cmp(ls[index], ls[index + 1]) = "Greater"
    THEN SwapForward([ls EXCEPT ![index] = ls[index + 1], ![index + 1] = ls[index]],
                     index + 1)
    ELSE ls

\* The filter_map of next(): for every injection of the head's current node
\* whose language resolves and whose ranges are not empty, the language name,
\* the ranges and includes_children.
GatherInjections(self, first_layer) ==
    LET tree == first_layer.tree
        n == first_layer.cursor
        injections == node_properties(first_layer).injections
        One(injection) ==
            LET language == injection_language_string(self.source, tree, n, injection.language)
                nodes == nodes_for_tree_path(tree, n, injection.content)
                ranges == intersect_ranges(first_layer.ranges, tree, nodes.nodes,
                                           injection.includes_children)
            IN  IF language.panicked THEN [panicked |-> TRUE, item |-> <<>>]
                ELSE IF language.name = None THEN [panicked |-> FALSE, item |-> <<>>]
                ELSE IF nodes.panicked \/ ranges.panicked THEN [panicked |-> TRUE, item |-> <<>>]
                ELSE IF Len(ranges.ranges) > 0
                THEN [panicked |-> FALSE,
                      item |-> <<[language |-> Unwrap(language.name),
                                  ranges |-> ranges.ranges,
                                  includes_children |-> injection.includes_children]>>]
                ELSE [panicked |-> FALSE, item |-> <<>>]
        all == [i \in 1..Len(injections) |-> One(injections[i])]
    IN  [panicked |-> \E i \in 1..Len(all) : all[i].panicked,
         items |-> Concat([i \in 1..Len(all) |-> all[i].item])]

\* The loop of next() that calls add_layer for every gathered injection and
\* stops at the first error.
RECURSIVE AddLayers(_, _, _, _, _)
AddLayers(self, items, k, depth, oracle) ==
    IF k > Len(items) THEN [self |-> self, err |-> None]
    ELSE LET added == add_layer(self, items[k].language, items[k].ranges, depth,
                                items[k].includes_children, oracle)
         IN  IF IsSome(added.err) THEN added
             ELSE AddLayers(added.self, items, k + 1, depth, oracle)

\* Faulty variant of IsVisible: every head layer is taken to be visible.
IsVisibleAlways(layer, max_depth) == TRUE

\* first_layer_is_visible
IsVisible(layer, max_depth) == layer.depth >= max_depth

\* Faulty variant of ApplicableHighlight: highlight_nonlocal is preferred to local_highlight.
ApplicableHighlightNonlocalFirst(local_highlight, properties) ==
    OptOr(properties.highlight_nonlocal, OptOr(local_highlight, properties.highlight))

\* The highlight next() applies to the head's current node.
ApplicableHighlight(local_highlight, properties) ==
    OptOr(local_highlight, OptOr(properties.highlight_nonlocal, properties.highlight))

\* The head layer after advance(): re-sorted if it has more nodes, removed if
\* it has none.
Resort(self, advanced) ==
    IF advanced.ret THEN [self EXCEPT !.layers = SwapForward([@ EXCEPT ![1] = advanced.layer], 1)]
    ELSE remove_first_layer([self EXCEPT !.layers[1] = advanced.layer])

\* The advance of the head layer with the re-sort, or its removal.
AdvanceFirstLayer(self) == Resort(self, advance(self.layers[1], self.source))

\* The event of the head's current node with the scope `highlight`.
ScopeEvent(head, highlight) ==
    IF head.at_node_end THEN HighlightEnd ELSE HighlightStart(Unwrap(highlight))

\* The return of a HighlightStart or HighlightEnd: the head has advanced.
ReturnScopeEvent(self, advanced, head, event) ==
    [self |-> [advanced EXCEPT !.log =
                  Append(@, LogEntry(self.calls, event.kind, event.highlight, <<>>,
                                     offset(head), head.depth, Covered(self.layers),
                                     <<>>, head.cursor))],
     ret |-> RetOk(event)]

\* The while loop of next() and what follows it.
RECURSIVE NextLoop(_, _)

\* The end of an iteration, the head advanced: the scope event if there is one.
NextAdvanced(self, oracle, advanced, head, highlight) ==
    IF IsSome(highlight)
    THEN ReturnScopeEvent(self, advanced, head, ScopeEvent(head, highlight))
    ELSE NextLoop(advanced, oracle)

\* Faulty variant of NextScope: the head has advanced when the pending source
\* text is returned.
NextScopeAdvancesFirst(self, oracle, head, highlight, next_offset) ==
    IF IsSome(highlight) /\ self.source_offset < next_offset
    THEN emit_source(AdvanceFirstLayer(self), next_offset)
    ELSE NextAdvanced(self, oracle, AdvanceFirstLayer(self), head, highlight)

\* The body of the loop once the injections of the node are installed: pending
\* source text first, then the scope event, else the next iteration.
NextScope(self, oracle, head, highlight, next_offset) ==
    IF IsSome(highlight) /\ self.source_offset < next_offset
    THEN emit_source(self, next_offset)
    ELSE NextAdvanced(self, oracle, AdvanceFirstLayer(self), head, highlight)

\* The body of the loop after the add_layer calls.
NextAdded(oracle, added, highlight) ==
    IF IsSome(added.err) THEN [self |-> added.self, ret |-> RetErr(Unwrap(added.err))]
    ELSE NextScope(added.self, oracle, added.self.layers[1], highlight,
                   Min(max_len(added.self.source), offset(added.self.layers[1])))

\* The body of the loop after the injections of the node are gathered.
NextGathered(self, oracle, first_layer, gathered, highlight) ==
    IF gathered.panicked THEN [self |-> self, ret |-> RetPanic]
    ELSE NextAdded(oracle, AddLayers(self, gathered.items, 1, first_layer.depth + 1, oracle),
                   highlight)

\* One iteration of the loop on the head layer.
NextIteration(self, oracle, first_layer, first_layer_is_visible) ==
    NextGathered(self, oracle, first_layer,
                 IF first_layer_is_visible /\ ~first_layer.at_node_end
                 THEN GatherInjections(self, first_layer)
                 ELSE [panicked |-> FALSE, items |-> <<>>],
                 IF first_layer_is_visible
                 THEN ApplicableHighlight(first_layer.local_highlight,
                                          node_properties(first_layer))
                 ELSE None)

\* Faulty variant of NextLoop: when no layer is left the rest of the source is
\* not emitted.
NextLoopWithoutRest(self, oracle) ==
    IF self.layers = <<>> THEN [self |-> self, ret |-> RetNone]
    ELSE NextIteration(self, oracle, self.layers[1],
                       IsVisible(self.layers[1], self.max_opaque_layer_depth))

NextLoop(self, oracle) ==
    IF self.layers = <<>> THEN
        IF self.source_offset < max_len(self.source)
        THEN emit_source(self, max_len(self.source))
        ELSE [self |-> self, ret |-> RetNone]
    ELSE NextIteration(self, oracle, self.layers[1],
                       IsVisible(self.layers[1], self.max_opaque_layer_depth))

\* Faulty variant of CancellationCheckDue: the flag is looked at one call later.
CancellationCheckLate(count) == count > CANCELLATION_CHECK_INTERVAL

\* The test that makes next() look at the cancellation flag.
CancellationCheckDue(count) == count >= CANCELLATION_CHECK_INTERVAL

\* Iterator::next for Highlighter
next(self0, oracle) ==
    LET called == [self0 EXCEPT !.calls = @ + 1]
        has_flag == IsSome(called.cancellation_flag)
        counted == IF has_flag THEN [called EXCEPT !.operation_count = @ + 1] ELSE called
        due == has_flag /\ CancellationCheckDue(counted.operation_count)
        self == IF due THEN [counted EXCEPT !.operation_count = 0] ELSE counted
    IN  IF due /\ Unwrap(self.cancellation_flag) # 0
        THEN [self |-> self, ret |-> RetErr("Cancelled")]
        ELSE IF IsSome(self.utf8_error_len) THEN
            [self |-> [self EXCEPT
                          !.source_offset = @ + Unwrap(self.utf8_error_len),
                          !.utf8_error_len = None,
                          !.log = Append(@, LogEntry(self.calls, "Source", None,
                                                     REPLACEMENT_CHARACTER_TEXT,
                                                     self.source_offset, 0, FALSE, <<>>,
                                                     0))],
             ret |-> RetOk(Source(REPLACEMENT_CHARACTER_TEXT))]
        ELSE NextLoop(self, oracle)

----------------------------------------------------------------------------
(* The state machine *)

NotCalled == [tag |-> "NotCalled", event |-> NoEvent, err |-> ""]

\* The iteration has ended: next() returned None or an error, or panicked.
Ended == result.tag \in {"None", "Err", "Panic"}

\* The Highlighter as one record, for the operators above.
Self ==
    [source |-> source, injection_callback |-> injection_callback,
     source_offset |-> source_offset, operation_count |-> operation_count,
     utf8_error_len |-> utf8_error_len, max_opaque_layer_depth |-> max_opaque_layer_depth,
     cancellation_flag |-> cancellation_flag, layers |-> layers, log |-> log,
     calls |-> calls]

\* The variables hold the Highlighter `self`, made over the tree `tree`, before
\* any call of next().
HighlighterIs(self, tree) ==
    /\ source = self.source
    /\ injection_callback = self.injection_callback
    /\ layers = self.layers
    /\ source_offset = self.source_offset
    /\ max_opaque_layer_depth = self.max_opaque_layer_depth
    /\ utf8_error_len = self.utf8_error_len
    /\ operation_count = self.operation_count
    /\ cancellation_flag = self.cancellation_flag
    /\ result = NotCalled
    /\ log = self.log
    /\ calls = self.calls
    /\ calls_since_cancel = 0
    /\ root_tree = tree

\* The state after Highlighter::new(src, ...) returned Ok.
InitHighlighter(src, tree, callback, flag) ==
    /\ HighlighterIs(HighlighterNew(src, tree, callback, flag), tree)
    /\ pure = [fn |-> "none"]

\* The state after a call of next() that returned r.ret and left the Highlighter r.self.
Returned(r) ==
    /\ layers' = r.self.layers
    /\ source_offset' = r.self.source_offset
    /\ max_opaque_layer_depth' = r.self.max_opaque_layer_depth
    /\ utf8_error_len' = r.self.utf8_error_len
    /\ operation_count' = r.self.operation_count
    /\ result' = r.ret
    /\ log' = IF r.ret.tag = "Ok" THEN r.self.log
              ELSE Append(r.self.log,
                          LogEntry(r.self.calls, r.ret.tag, None, <<>>, source_offset, 0,
                                   FALSE, <<>>, 0))
    /\ calls' = r.self.calls
    /\ calls_since_cancel' =
           IF IsSome(cancellation_flag) /\ Unwrap(cancellation_flag) # 0
           THEN calls_since_cancel + 1 ELSE calls_since_cancel
    /\ UNCHANGED <<source, injection_callback, cancellation_flag, root_tree, pure>>

\* One call of next().
Call(oracle) == Returned(next(Self, oracle))

\* The consumer calls next() until the iteration ends.
CallNext ==
    /\ ~Ended
    /\ \E oracle \in Oracles(injection_callback, cancellation_flag) : Call(oracle)

----------------------------------------------------------------------------
(* Inputs: the UTF-8 family.  Short sources over a few bytes that make every *)
(* kind of UTF-8 error, under a tree with no, one or two highlighted nodes. *)

\* 'a'; a byte that starts no sequence; the lead byte of a 2-byte sequence; a
\* continuation byte; the lead byte of a 3-byte sequence.
Utf8Bytes == {97, 255, 195, 169, 226}

RECURSIVE SeqsUpTo(_, _)
SeqsUpTo(S, n) ==
    IF n = 0 THEN {<<>>}
    ELSE LET shorter == SeqsUpTo(S, n - 1)
         IN  shorter \cup {Append(s, x) : s \in {t \in shorter : Len(t) = n - 1}, x \in S}

Highlighted(h) == Properties(Some(h), None, <<>>, None, FALSE, FALSE)

\* The trees of the UTF-8 family over a source of length n: a bare root, a
\* highlighted root, and a root with a highlighted child that leaves the first
\* and the last byte out.
Utf8Trees(n) ==
    {<<TreeNode(0, 0, n, 0, NoProperties)>>,
     <<TreeNode(0, 0, n, 0, Highlighted("string"))>>}
    \cup (IF n >= 2
          THEN {<<TreeNode(0, 0, n, 0, NoProperties),
                  TreeNode(1, 1, n - 1, 1, Highlighted("string"))>>}
          ELSE {})

\* Scenario 6 of the specification: "ab\xFFcd" with no highlights.
Scenario6Source == <<97, 98, 255, 99, 100>>

NoInjections == <<>>

Init ==
    \E src \in SeqsUpTo(Utf8Bytes, MaxSourceLen) \cup {Scenario6Source} :
        \E tree \in Utf8Trees(Len(src)) :
            InitHighlighter(src, tree, NoInjections, None)

Next == CallNext

Spec == Init /\ [][Next]_vars

----------------------------------------------------------------------------
(* Inputs: the local-scope family.  One layer; four one-byte identifiers, the *)
(* second to fourth inside a node A that may open a scope, the third inside a *)
(* node B within A that may open a scope (and may itself be a definition).   *)

\* The identifier texts of the family: "a" and "b".
LocalNames == {97, 98}

\* The roles the sheet can give an identifier.
RoleProps(role) ==
    CASE role = "def1" -> Properties(Some("variable.parameter"), None, <<>>, None, TRUE, FALSE)
      [] role = "def2" -> Properties(Some("function"), None, <<>>, None, TRUE, FALSE)
      [] role = "ref" -> Properties(Some("property"), Some("variable"), <<>>, None, FALSE, TRUE)
      [] role = "refh" -> Properties(Some("constant"), None, <<>>, None, FALSE, TRUE)
      [] role = "refbare" -> Properties(None, None, <<>>, None, FALSE, TRUE)
      [] role = "defref" -> Properties(Some("type"), Some("variable"), <<>>, None, TRUE, TRUE)
      [] role = "defrefbare" -> Properties(None, Some("variable"), <<>>, None, TRUE, TRUE)
      [] role = "nonref" -> Properties(Some("property"), Some("variable"), <<>>, None, FALSE, FALSE)
      [] OTHER -> NoProperties

\* A node that opens a scope (or not), and is a definition when def is set.
ScopeProps(local_scope, def) ==
    Properties(IF def THEN Some("function") ELSE None, None, <<>>, local_scope, def, FALSE)

ScopeChoices == {None, Some(TRUE), Some(FALSE)}

LocalsTree(r1, r2, r3, r4, scope_a, scope_b, def_b) ==
    <<TreeNode(0, 0, 4, 0, NoProperties),
      TreeNode(1, 0, 1, 1, RoleProps(r1)),
      TreeNode(1, 1, 4, 2, ScopeProps(scope_a, FALSE)),
      TreeNode(3, 1, 2, 1, RoleProps(r2)),
      TreeNode(3, 2, 3, 2, ScopeProps(scope_b, def_b)),
      TreeNode(5, 2, 3, 1, RoleProps(r3)),
      TreeNode(3, 3, 4, 1, RoleProps(r4))>>

LocalsTrees ==
    {LocalsTree(r1, r2, r3, r4, scope_a, scope_b, def_b) :
        r1 \in {"def1", "plain"},
        r2 \in {"def2", "plain"},
        r3 \in {"ref", "refh", "refbare", "def2", "defref", "defrefbare"},
        r4 \in {"def1", "ref", "plain", "nonref"},
        scope_a \in ScopeChoices, scope_b \in ScopeChoices, def_b \in BOOLEAN}

InitLocals ==
    \E src \in [1..4 -> LocalNames] :
        \E tree \in LocalsTrees :
            /\ src[3] = 97
            /\ InitHighlighter(src, tree, NoInjections, None)

SpecLocals == InitLocals /\ [][Next]_vars

----------------------------------------------------------------------------
(* Inputs: the injection family.  The source "abcd"; a root with three      *)
(* children A [0,1), D [1,3) and E [3,4); D may declare injections and may  *)
(* have one child, which may be of zero width.                              *)

LayersSource == <<97, 98, 99, 100>>

\* The names of the injected languages: "x" and "y".
LangX == <<120>>
LangY == <<121>>

\* What the injection callback knows.  In the first, x highlights its root
\* and its tokens.  In the second, the root of x injects y over itself, opaquely.
LayersCallbacks ==
    {[n \in {LangX, LangY} |->
         IF n = LangX
         THEN Language(TRUE, Highlighted("embedded"), Some(Highlighted("number")))
         ELSE Language(TRUE, NoProperties, Some(Highlighted("comment")))],
     [n \in {LangX, LangY} |->
         IF n = LangX
         THEN Language(TRUE,
                       Properties(Some("embedded"), None,
                                  <<Injection(Literal(LangY), <<>>, TRUE)>>, None, FALSE, FALSE),
                       None)
         ELSE Language(TRUE, Highlighted("comment"), None)]}

\* The injections D may declare: none; x over D, opaque or not; x over the
\* children of D; x over D opaquely and then y over D.
InjectionChoices ==
    {<<>>,
     <<Injection(Literal(LangX), <<>>, TRUE)>>,
     <<Injection(Literal(LangX), <<>>, FALSE)>>,
     <<Injection(Literal(LangX), <<StepChildren(None)>>, FALSE)>>,
     <<Injection(Literal(LangX), <<>>, TRUE), Injection(Literal(LangY), <<>>, FALSE)>>}

\* The child of D: none, its left or right half, or a zero-width node (as the
\* parser makes for a missing token).
ChildChoices == {"none", "left", "right", "zero"}

OptHighlighted(on, h) == IF on THEN Highlighted(h) ELSE NoProperties

LayersTree(a_high, d_high, e_high, child, injections) ==
    <<TreeNode(0, 0, 4, 0, NoProperties),
      TreeNode(1, 0, 1, 1, OptHighlighted(a_high, "keyword")),
      TreeNode(1, 1, 3, 2,
               Properties(IF d_high THEN Some("string") ELSE None, None, injections, None,
                          FALSE, FALSE))>>
    \o (CASE child = "left" -> <<TreeNode(3, 1, 2, 1, Highlighted("variable"))>>
          [] child = "right" -> <<TreeNode(3, 2, 3, 1, Highlighted("variable"))>>
          [] child = "zero" -> <<TreeNode(3, 2, 2, 1, Highlighted("variable"))>>
          [] OTHER -> <<>>)
    \o <<TreeNode(1, 3, 4, 1, OptHighlighted(e_high, "keyword"))>>

LayersTrees ==
    {LayersTree(a_high, d_high, e_high, child, injections) :
        a_high \in BOOLEAN, d_high \in BOOLEAN, e_high \in BOOLEAN,
        child \in ChildChoices, injections \in InjectionChoices}

InitLayers ==
    \E tree \in LayersTrees :
        \E callback \in LayersCallbacks :
            InitHighlighter(LayersSource, tree, callback, None)

SpecLayers == InitLayers /\ [][Next]_vars

\* A call of next(), seen by the counter of the calls alone: as long as the
\* iteration has not ended a call is possible, and every call is counted.
CallCounted == ~Ended /\ calls' = calls + 1

\* The consumer of the iterator goes on calling next() until it returns None
\* or an error.
SpecLayersLive == InitLayers /\ [][Next]_vars /\ WF_calls(CallCounted)

----------------------------------------------------------------------------
(* Inputs: the cancellation family.  The source "ab" under a highlighted    *)
(* root, with no flag, a flag that is zero, or a flag that is nonzero from  *)
(* the start; another thread may set the flag at any moment, and the        *)
(* consumer may go on calling next() after the end of the stream.           *)

CancelSource == <<97, 98>>

CancelTrees ==
    {<<TreeNode(0, 0, 2, 0, Highlighted("string"))>>,
     <<TreeNode(0, 0, 2, 0, NoProperties),
       TreeNode(1, 0, 1, 1, Highlighted("keyword")),
       TreeNode(1, 1, 2, 1, Highlighted("string"))>>}

InitCancel ==
    \E tree \in CancelTrees :
        \E flag \in {None, Some(0), Some(1)} :
            InitHighlighter(CancelSource, tree, NoInjections, flag)

\* Another thread stores a nonzero value in the cancellation flag.
Cancel ==
    /\ cancellation_flag = Some(0)
    /\ result.tag \notin {"Err", "Panic"}
    /\ cancellation_flag' = Some(1)
    /\ UNCHANGED <<source, injection_callback, layers, source_offset,
                   max_opaque_layer_depth, utf8_error_len, operation_count, result, log,
                   calls, calls_since_cancel, root_tree, pure>>

\* A call of next() after it has returned None.
CallAgain ==
    /\ result.tag = "None"
    /\ calls < MaxCalls
    /\ \E oracle \in Oracles(injection_callback, cancellation_flag) : Call(oracle)

NextCancel == CallNext \/ CallAgain \/ Cancel

SpecCancel == InitCancel /\ [][NextCancel]_vars

----------------------------------------------------------------------------
(* Inputs: the offset family.  The sources and trees of the UTF-8 family    *)
(* and of the injection family, and a source "a\xFF" under highlighted      *)
(* nodes nested so deep that the call after the Source of the valid prefix  *)
(* "a" is the one that checks the cancellation flag; the flag is zero or    *)
(* nonzero, and another thread may set it at any moment.                    *)

OffsetsSource == <<97, 255>>

\* k highlighted nodes over the n bytes of the source, each the only child of
\* the one before.
NestedTree(k, n) == [i \in 1..k |-> TreeNode(i - 1, 0, n, 0, Highlighted("string"))]

\* The HighlightStart events that come before the first Source, which is to
\* be the last event before the cancellation check.
NestingDepth == CANCELLATION_CHECK_INTERVAL - 2

InitOffsets ==
    \/ Init
    \/ InitLayers
    \/ \E flag \in {Some(0), Some(1)} :
           InitHighlighter(OffsetsSource, NestedTree(NestingDepth, Len(OffsetsSource)),
                           NoInjections, flag)

NextOffsets == CallNext \/ Cancel

SpecOffsets == InitOffsets /\ [][NextOffsets]_vars

----------------------------------------------------------------------------
(* Inputs: the range family, for intersect_ranges alone.  Sorted disjoint   *)
(* non-empty parent ranges, and one content node with up to two children or *)
(* two content nodes with up to one child each, in document order; a child  *)
(* may be of zero width.                                                    *)

ParentRangeCounts == {1, 2, 3}

\* The intervals <<a, b>> with lo <= a <= b <= hi, the empty ones only if asked for.
IntervalsIn(lo, hi, allow_empty) ==
    {iv \in (lo..hi) \X (lo..hi) : IF allow_empty THEN iv[1] <= iv[2] ELSE iv[1] < iv[2]}

\* The lists of k intervals within lo..hi, each ending before the next starts.
RECURSIVE OrderedIntervals(_, _, _, _)
OrderedIntervals(lo, hi, k, allow_empty) ==
    IF k = 0 THEN {<<>>}
    ELSE UNION {{<<iv>> \o rest : rest \in OrderedIntervals(iv[2], hi, k - 1, allow_empty)} :
                   iv \in IntervalsIn(lo, hi, allow_empty)}

RangesOf(ivs) == [i \in 1..Len(ivs) |-> ByteRange(ivs[i][1], ivs[i][2])]

\* The parent ranges: lists of one to three ranges, and the range of a root layer.
ParentRangeLists ==
    {RangesOf(ivs) : ivs \in UNION {OrderedIntervals(0, MaxRangeByte, k, FALSE) :
                                       k \in ParentRangeCounts}}
    \cup {<<Range(0, USIZE_MAX, Point(0, 0), Point(USIZE_MAX, USIZE_MAX))>>}

\* A content node with its children, as spans.
WithChildren(span, counts) ==
    {[span |-> span, children |-> ch] :
        ch \in UNION {OrderedIntervals(span[1], span[2], c, TRUE) : c \in counts}}

\* The content nodes of the family.
ContentNodeLists ==
    UNION {{<<cn>> : cn \in WithChildren(span, {0, 1, 2})} :
              span \in IntervalsIn(0, MaxRangeByte, FALSE)}
    \cup UNION {{<<c1, c2>> : c1 \in WithChildren(spans[1], {0, 1}),
                              c2 \in WithChildren(spans[2], {0, 1})} :
                   spans \in OrderedIntervals(0, MaxRangeByte, 2, FALSE)}

\* The place of the i-th content node in the tree (the root is node 1).
ContentNodeIndex(cs, i) ==
    IF i = 1 THEN 2 ELSE 3 + Len(cs[1].children)

\* The tree with the content nodes as the children of the root.
ContentTree(cs) ==
    <<TreeNode(0, 0, MaxRangeByte, 0, NoProperties)>>
    \o Concat([i \in 1..Len(cs) |->
                  <<TreeNode(1, cs[i].span[1], cs[i].span[2], 1, NoProperties)>>
                  \o [j \in 1..Len(cs[i].children) |->
                         TreeNode(ContentNodeIndex(cs, i), cs[i].children[j][1],
                                  cs[i].children[j][2], 2, NoProperties)]])

InitRanges ==
    \E parent_ranges \in ParentRangeLists :
        \E cs \in ContentNodeLists :
            /\ HighlighterIs(HighlighterNew([i \in 1..MaxRangeByte |-> 97], ContentTree(cs),
                                            NoInjections, None),
                             ContentTree(cs))
            /\ pure = [fn |-> "intersect_ranges", parent_ranges |-> parent_ranges,
                       nodes |-> [i \in 1..Len(cs) |-> ContentNodeIndex(cs, i)],
                       includes_children |-> FALSE, done |-> FALSE,
                       result |-> [ranges |-> <<>>, panicked |-> FALSE]]

\* One call of intersect_ranges on the inputs.
CallIntersectRanges ==
    /\ pure.fn = "intersect_ranges"
    /\ ~pure.done
    /\ \E includes_children \in BOOLEAN :
           pure' = [pure EXCEPT
                       !.includes_children = includes_children,
                       !.done = TRUE,
                       !.result = intersect_ranges(pure.parent_ranges, root_tree, pure.nodes,
                                                   includes_children)]
    /\ UNCHANGED <<source, injection_callback, layers, source_offset,
                   max_opaque_layer_depth, utf8_error_len, operation_count,
                   cancellation_flag, result, log, calls, calls_since_cancel, root_tree>>

NextRanges == CallIntersectRanges

SpecRanges == InitRanges /\ [][NextRanges]_vars

----------------------------------------------------------------------------
(* Property sheet loading: Properties::new and tree-path flattening *)

\* Result<T, String>, with `panicked` for a call that does not return.
Ok(value) == [ok |-> TRUE, value |-> value, err |-> "", panicked |-> FALSE]
Err(message) == [ok |-> FALSE, value |-> <<>>, err |-> message, panicked |-> FALSE]
Panicked == [ok |-> FALSE, value |-> <<>>, err |-> "", panicked |-> TRUE]

\* enum TreePathJSON
JsonThis == [name |-> "this", args |-> <<>>]
JsonChild(args) == [name |-> "child", args |-> args]
JsonChildren(args) == [name |-> "children", args |-> args]
JsonNext(args) == [name |-> "next", args |-> args]

\* enum TreePathArgJSON
ArgTreePath(p) == [arg |-> "TreePath", path |-> p, number |-> 0, string |-> ""]
ArgNumber(i) == [arg |-> "Number", path |-> <<>>, number |-> i, string |-> ""]
ArgString(s) == [arg |-> "String", path |-> <<>>, number |-> 0, string |-> s]

\* enum InjectionLanguageJSON
LanguageList(list) == [json |-> "List", list |-> list, path |-> <<>>, string |-> <<>>]
LanguageTreePath(p) == [json |-> "TreePath", list |-> <<>>, path |-> p, string |-> <<>>]
LanguageLiteral(s) == [json |-> "Literal", list |-> <<>>, path |-> <<>>, string |-> s]

\* enum InjectionContentJSON
ContentList(l) == [json |-> "List", list |-> l, path |-> <<>>]
ContentTreePath(p) == [json |-> "TreePath", list |-> <<>>, path |-> p]

\* enum InjectionIncludesChildrenJSON
IncludesList(v) == [json |-> "List", v |-> v]
IncludesSingle(v) == [json |-> "Single", v |-> <<v>>]

\* struct PropertiesJSON; locals holds the four local-* flags in the order of
\* the struct.
PropertiesJSON(highlight, highlight_nonlocal, injection_language, injection_content, injection_includes_children, locals) ==
    [highlight |-> highlight, highlight_nonlocal |-> highlight_nonlocal,
     injection_language |-> injection_language, injection_content |-> injection_content,
     injection_includes_children |-> injection_includes_children,
     local_scope |-> locals[1], local_scope_inherit |-> locals[2],
     local_definition |-> locals[3], local_reference |-> locals[4]]

\* tree_sitter::Language as the loader uses it: the node kinds, kind i + 1 of
\* the sequence having the id i.
node_kind_count(language) == Len(language)
node_kind_for_id(language, i) == language[i + 1].kind
node_kind_is_named(language, i) == language[i + 1].named

\* The loop of parse_args over the arguments after the first.
RECURSIVE ParseOtherArgs(_, _, _, _)
ParseOtherArgs(args, k, index, kinds) ==
    IF k > Len(args) THEN [ok |-> TRUE, index |-> index, kinds |-> kinds]
    ELSE IF args[k].arg = "TreePath" THEN [ok |-> FALSE, index |-> index, kinds |-> kinds]
    ELSE IF args[k].arg = "Number"
    THEN ParseOtherArgs(args, k + 1, Some(args[k].number), kinds)
    ELSE ParseOtherArgs(args, k + 1, index, Append(kinds, args[k].string))

\* The kind ids parse_args collects for the kind names.
KindIds(kinds, language) ==
    {i \in 0..(node_kind_count(language) - 1) :
        /\ \E k \in 1..Len(kinds) : kinds[k] = node_kind_for_id(language, i)
        /\ node_kind_is_named(language, i)}

\* Properties::parse_args
parse_args(name, args, language) ==
    IF args = <<>> \/ args[1].arg # "TreePath"
    THEN Err("First argument must be a tree path")
    ELSE LET others == ParseOtherArgs(args, 2, None, <<>>)
             kind_ids == KindIds(others.kinds, language)
         IN  IF ~others.ok THEN Err("Other arguments must be strings or numbers")
             ELSE IF Len(others.kinds) > 0 THEN
                 IF kind_ids = {} THEN Err("Non-existent node kinds")
                 ELSE Ok([tree_path |-> args[1].path, index |-> others.index,
                          kinds |-> Some(kind_ids)])
             ELSE Ok([tree_path |-> args[1].path, index |-> others.index, kinds |-> None])

\* The step flatten_tree_path pushes for a form, once its receiver is flattened.
PushStep(name, parsed, steps) ==
    IF name = "child" THEN
        IF parsed.index = None THEN Err("The child function requires an index")
        ELSE Ok(Append(steps, StepChild(Unwrap(parsed.index), parsed.kinds)))
    ELSE IF name = "children" THEN Ok(Append(steps, StepChildren(parsed.kinds)))
    ELSE Ok(Append(steps, StepNext(parsed.kinds)))

\* Properties::flatten_tree_path: Ok with the steps pushed after steps, or Err.
RECURSIVE flatten_tree_path(_, _, _)

\* Faulty variant of FlattenReceiver: the step of the outer form comes first.
FlattenReceiverOuterFirst(p, parsed, flattened) ==
    IF ~flattened.ok THEN flattened
    ELSE IF ~PushStep(p.name, parsed, <<>>).ok THEN PushStep(p.name, parsed, <<>>)
    ELSE Ok(PushStep(p.name, parsed, <<>>).value \o flattened.value)

\* flatten_tree_path for a form whose receiver is flattened.
FlattenReceiver(p, parsed, flattened) ==
    IF ~flattened.ok THEN flattened ELSE PushStep(p.name, parsed, flattened.value)

\* flatten_tree_path for a form whose arguments are parsed.
FlattenParsed(p, parsed, steps, language) ==
    IF ~parsed.ok THEN parsed
    ELSE FlattenReceiver(p, parsed.value,
                         flatten_tree_path(parsed.value.tree_path, steps, language))

flatten_tree_path(p, steps, language) ==
    IF p.name = "this" THEN Ok(steps)
    ELSE FlattenParsed(p, parse_args(p.name, p.args, language), steps, language)

\* Properties::new: the elements of an injection-language list, in order.
RECURSIVE LanguagesOfList(_, _, _, _)

LanguagesOfPath(list, k, converted, language, flattened) ==
    IF ~flattened.ok THEN flattened
    ELSE LanguagesOfList(list, k + 1, Append(converted, TreePath(flattened.value)), language)

LanguagesOfList(list, k, converted, language) ==
    IF k > Len(list) THEN Ok(converted)
    ELSE IF list[k].json = "TreePath"
    THEN LanguagesOfPath(list, k, converted, language,
                         flatten_tree_path(list[k].path, <<>>, language))
    ELSE IF list[k].json = "Literal"
    THEN LanguagesOfList(list, k + 1, Append(converted, Literal(list[k].string)), language)
    ELSE Panicked

\* Properties::new: languages.
LanguagesOf(language_json, language) ==
    IF language_json.json = "List" THEN LanguagesOfList(language_json.list, 1, <<>>, language)
    ELSE LanguagesOfList(<<language_json>>, 1, <<>>, language)

\* Properties::new: the elements of an injection-content list, in order.
RECURSIVE ContentsOfList(_, _, _, _)

ContentsOfPath(l, k, converted, language, flattened) ==
    IF ~flattened.ok THEN flattened
    ELSE ContentsOfList(l, k + 1, Append(converted, flattened.value), language)

ContentsOfList(l, k, converted, language) ==
    IF k > Len(l) THEN Ok(converted)
    ELSE IF l[k].json = "TreePath"
    THEN ContentsOfPath(l, k, converted, language, flatten_tree_path(l[k].path, <<>>, language))
    ELSE Panicked

\* Properties::new: contents.
ContentsOf(content_json, language) ==
    IF content_json.json = "List" THEN ContentsOfList(content_json.list, 1, <<>>, language)
    ELSE ContentsOfList(<<content_json>>, 1, <<>>, language)

\* Properties::new: includes_children before it is resized.
IncludesChildrenOf(injection_includes_children) ==
    IF injection_includes_children = None THEN <<FALSE>>
    ELSE Unwrap(injection_includes_children).v

\* Vec::resize(new_len, value)
resize(v, new_len, value) ==
    [i \in 1..new_len |-> IF i <= Len(v) THEN v[i] ELSE value]

\* Properties::new: the zip of languages, contents and includes_children.
ZipInjections(languages, contents, includes_children) ==
    IF Len(languages) = Len(contents) THEN
        IF includes_children = <<>> THEN Panicked
        ELSE Ok([i \in 1..Len(languages) |->
                    Injection(languages[i], contents[i],
                              resize(includes_children, Len(languages),
                                     includes_children[1])[i])])
    ELSE Err("Mismatch of injection-language and injection-content values")

\* Properties::new: the injections, once the languages are converted.
InjectionsOfContents(json, languages, contents) ==
    IF ~contents.ok THEN contents
    ELSE ZipInjections(languages.value, contents.value,
                       IncludesChildrenOf(json.injection_includes_children))

InjectionsOfLanguages(json, language, languages) ==
    IF ~languages.ok THEN languages
    ELSE InjectionsOfContents(json, languages,
                              ContentsOf(Unwrap(json.injection_content), language))

\* Properties::new: injections.
InjectionsOf(json, language) ==
    IF json.injection_language = None /\ json.injection_content = None THEN Ok(<<>>)
    ELSE IF json.injection_content = None
    THEN Err("Must specify an injection-content along with an injection-language")
    ELSE IF json.injection_language = None
    THEN Err("Must specify an injection-language along with an injection-content")
    ELSE InjectionsOfLanguages(json, language,
                               LanguagesOf(Unwrap(json.injection_language), language))

\* Properties::new: the Properties built around the injections.
PropertiesOf(json, injections) ==
    IF ~injections.ok THEN injections
    ELSE Ok(Properties(json.highlight, json.highlight_nonlocal, injections.value,
                       IF json.local_scope THEN Some(json.local_scope_inherit) ELSE None,
                       json.local_definition, json.local_reference))

\* Properties::new
PropertiesNew(json, language) == PropertiesOf(json, InjectionsOf(json, language))

\* PropertySheet::map: the records converted in order, up to the first that fails.
RECURSIVE MapSheet(_, _, _, _)

MapSheetRecord(sheet, k, converted, language, properties) ==
    IF ~properties.ok THEN properties
    ELSE MapSheet(sheet, k + 1, Append(converted, properties.value), language)

MapSheet(sheet, k, converted, language) ==
    IF k > Len(sheet) THEN Ok(converted)
    ELSE MapSheetRecord(sheet, k, converted, language, PropertiesNew(sheet[k], language))

\* enum PropertySheetError, around the message.
InvalidFormat(mapped) ==
    IF mapped.ok \/ mapped.panicked THEN mapped ELSE [mapped EXCEPT !.err = "InvalidFormat"]

\* load_property_sheet, given what PropertySheet::new made of the JSON text:
\* an error, or the records of the sheet.
load_property_sheet(language, json) ==
    IF IsSome(json.error) THEN Err(Unwrap(json.error))
    ELSE InvalidFormat(MapSheet(json.records, 1, <<>>, language))

----------------------------------------------------------------------------
(* Inputs: the tree-path family, for flatten_tree_path and the execution of *)
(* its steps.  Nested paths up to a depth over a language with three named  *)
(* kinds and one anonymous kind, run from every node of one tree.           *)

\* The node kinds of the language, by id 0..3.
SheetLanguage ==
    <<[kind |-> "program", named |-> TRUE],
      [kind |-> "identifier", named |-> TRUE],
      [kind |-> "block", named |-> TRUE],
      [kind |-> ";", named |-> FALSE]>>

\* program( block(identifier ";") identifier block(identifier(identifier)) )
PathTree ==
    <<TreeNode(0, 0, 4, 0, NoProperties),
      TreeNode(1, 0, 2, 2, NoProperties),
      TreeNode(2, 0, 1, 1, NoProperties),
      TreeNode(2, 1, 2, 3, NoProperties),
      TreeNode(1, 2, 3, 1, NoProperties),
      TreeNode(1, 3, 4, 2, NoProperties),
      TreeNode(6, 3, 4, 1, NoProperties),
      TreeNode(7, 3, 4, 1, NoProperties)>>

\* The arguments after the receiver: an index or none, and kind names or none
\* (";" names no named kind).
IndexArgs == {<<>>, <<ArgNumber(0)>>, <<ArgNumber(1)>>, <<ArgNumber(-1)>>}
KindArgs == {<<>>, <<ArgString("identifier")>>, <<ArgString(";")>>}

\* The forms around a receiver p.
FormsAround(p) ==
    {JsonChild(<<ArgTreePath(p)>> \o index \o kinds) : index \in IndexArgs, kinds \in KindArgs}
    \cup {JsonChildren(<<ArgTreePath(p)>> \o kinds) : kinds \in KindArgs}
    \cup {JsonNext(<<ArgTreePath(p)>>)}

\* The nested paths of at most d forms.
RECURSIVE PathsUpTo(_)
PathsUpTo(d) ==
    IF d = 0 THEN {JsonThis}
    ELSE PathsUpTo(d - 1) \cup UNION {FormsAround(p) : p \in PathsUpTo(d - 1)}

InitPaths ==
    \E p \in PathsUpTo(MaxPathDepth) :
        \E n \in 1..Len(PathTree) :
            /\ HighlighterIs(HighlighterNew(LayersSource, PathTree, NoInjections, None),
                             PathTree)
            /\ pure = [fn |-> "tree_path", path |-> p, node |-> n, done |-> FALSE,
                       flattened |-> Ok(<<>>),
                       found |-> [nodes |-> <<>>, panicked |-> FALSE]]

\* The nodes the flattened steps select, when the path could be flattened.
RunFlattened(flattened, n) ==
    IF flattened.ok THEN nodes_for_tree_path(root_tree, n, flattened.value)
    ELSE [nodes |-> <<>>, panicked |-> FALSE]

\* The path is flattened as the loader does it.
Flattened(flattened) ==
    pure' = [pure EXCEPT !.done = TRUE, !.flattened = flattened,
                         !.found = RunFlattened(flattened, pure.node)]

\* The path is flattened and its steps are run from the node.
CallFlattenTreePath ==
    /\ pure.fn = "tree_path"
    /\ ~pure.done
    /\ Flattened(flatten_tree_path(pure.path, <<>>, SheetLanguage))
    /\ UNCHANGED <<source, injection_callback, layers, source_offset,
                   max_opaque_layer_depth, utf8_error_len, operation_count,
                   cancellation_flag, result, log, calls, calls_since_cancel, root_tree>>

NextPaths == CallFlattenTreePath

SpecPaths == InitPaths /\ [][NextPaths]_vars

----------------------------------------------------------------------------
(* Inputs: the sheet family, for load_property_sheet.  One record whose     *)
(* injection fields are absent, single or lists of up to two elements, with *)
(* tree paths that flatten and tree paths that do not, and lists in lists.  *)

\* child(this): a child form without an index.
ChildWithoutIndex == JsonChild(<<ArgTreePath(JsonThis)>>)

\* children(this, ";"): the kind name of no named kind.
ChildrenOfNoKind == JsonChildren(<<ArgTreePath(JsonThis), ArgString(";")>>)

\* child(this, 0, "identifier")
FirstIdentifier == JsonChild(<<ArgTreePath(JsonThis), ArgNumber(0), ArgString("identifier")>>)

\* The lists of at most n elements of S.
ListsUpTo(S, n) == SeqsUpTo(S, n)

\* The single values of injection-language, and the elements of its lists.
LanguageSingles ==
    {LanguageLiteral(LangX), LanguageTreePath(FirstIdentifier), LanguageTreePath(ChildWithoutIndex)}
LanguageElements == LanguageSingles \cup {LanguageList(<<LanguageLiteral(LangY)>>)}

\* The single values of injection-content, and the elements of its lists.
ContentSingles ==
    {ContentTreePath(JsonThis), ContentTreePath(JsonChildren(<<ArgTreePath(JsonThis)>>)),
     ContentTreePath(ChildrenOfNoKind)}
ContentElements == ContentSingles \cup {ContentList(<<ContentTreePath(JsonThis)>>)}

InjectionLanguageChoices ==
    {None} \cup {Some(l) : l \in LanguageSingles}
    \cup {Some(LanguageList(list)) : list \in ListsUpTo(LanguageElements, MaxListLen)}

InjectionContentChoices ==
    {None} \cup {Some(c) : c \in ContentSingles}
    \cup {Some(ContentList(l)) : l \in ListsUpTo(ContentElements, MaxListLen)}

IncludesChildrenChoices ==
    {None, Some(IncludesSingle(TRUE)), Some(IncludesList(<<>>)), Some(IncludesList(<<TRUE>>)),
     Some(IncludesList(<<FALSE, TRUE>>)), Some(IncludesList(<<TRUE, FALSE, TRUE>>))}

\* local-scope, local-scope-inherit, local-definition, local-reference
LocalFlagChoices == {<<FALSE, FALSE, FALSE, FALSE>>, <<TRUE, TRUE, FALSE, TRUE>>}

\* What PropertySheet::new makes of the JSON text: an error or the records.
SheetChoices ==
    {[error |-> None,
      records |-> <<PropertiesJSON(Some("string"), None, language, content, includes, locals)>>] :
        language \in InjectionLanguageChoices, content \in InjectionContentChoices,
        includes \in IncludesChildrenChoices, locals \in LocalFlagChoices}
    \cup {[error |-> Some(e), records |-> <<>>] : e \in {"InvalidJSON", "InvalidRegex"}}

InitLoad ==
    \E json \in SheetChoices :
        /\ HighlighterIs(HighlighterNew(LayersSource, PathTree, NoInjections, None), PathTree)
        /\ pure = [fn |-> "load_property_sheet", json |-> json, done |-> FALSE,
                   loaded |-> Err("")]

\* One call of load_property_sheet on the sheet.
CallLoadPropertySheet ==
    /\ pure.fn = "load_property_sheet"
    /\ ~pure.done
    /\ pure' = [pure EXCEPT !.done = TRUE,
                            !.loaded = load_property_sheet(SheetLanguage, pure.json)]
    /\ UNCHANGED <<source, injection_callback, layers, source_offset,
                   max_opaque_layer_depth, utf8_error_len, operation_count,
                   cancellation_flag, result, log, calls, calls_since_cancel, root_tree>>

NextLoad == CallLoadPropertySheet

SpecLoad == InitLoad /\ [][NextLoad]_vars

----------------------------------------------------------------------------
(* Inputs: the skipped-injection family.  The root tree of the injection    *)
(* family, whose node D [1,3) declares up to two injections, some of which  *)
(* come to nothing: the name of a language the callback does not know, a    *)
(* language path that finds no node or a text that is not UTF-8, a content  *)
(* path that finds no node.  The callback knows the language x only.        *)

\* The name of a language the callback does not know: "z".
LangZ == <<122>>

\* "axcd", "a\xFFcd" and "abcd": the text of the first child of D is the name
\* x, no UTF-8 text, or the name of no language.
SkipSources == {<<97, 120, 99, 100>>, <<97, 255, 99, 100>>, <<97, 98, 99, 100>>}

SkipCallback ==
    [n \in {LangX} |-> Language(TRUE, Highlighted("embedded"), Some(Highlighted("number")))]

\* The injections D may declare, one by one: x over D, not opaque and opaque;
\* z over D; the language named by the second child of D (there is none);
\* the language named by the first child of D; x over the fourth child of D
\* (there is none).
SkipInjectionKinds ==
    {Injection(Literal(LangX), <<>>, FALSE),
     Injection(Literal(LangX), <<>>, TRUE),
     Injection(Literal(LangZ), <<>>, TRUE),
     Injection(TreePath(<<StepChild(1, None)>>), <<>>, TRUE),
     Injection(TreePath(<<StepChild(0, None)>>), <<>>, FALSE),
     Injection(Literal(LangX), <<StepChild(3, None)>>, TRUE)}

SkipTrees ==
    {LayersTree(TRUE, d_high, FALSE, child, injections) :
        d_high \in BOOLEAN, child \in {"none", "left"},
        injections \in SeqsUpTo(SkipInjectionKinds, MaxInjections)}

InitSkips ==
    \E src \in SkipSources :
        \E tree \in SkipTrees :
            InitHighlighter(src, tree, SkipCallback, None)

SpecSkips == InitSkips /\ [][Next]_vars

----------------------------------------------------------------------------
(* highlight_html and HtmlRenderer.  A String is a sequence of characters, *)
(* each a one-character string.                                            *)

\* The text of the tags that start_scope and end_scope write.
SpanOpen == <<"<", "s", "p", "a", "n", " ">>
SpanClose == <<"<", "/", "s", "p", "a", "n", ">">>

\* escape::Escape for one character.
EscapeChar(c) ==
    CASE c = "<" -> <<"&", "l", "t", ";">>
      [] c = ">" -> <<"&", "g", "t", ";">>
      [] c = "&" -> <<"&", "a", "m", "p", ";">>
      [] OTHER -> <<c>>

\* escape::Escape(line), as write! formats it.
Escape(line) == Concat([i \in 1..Len(line) |-> EscapeChar(line[i])])

\* str::split(sep): the pieces between the separators, in order.
RECURSIVE split(_, _)
split(src, sep) ==
    LET at == {i \in 1..Len(src) : src[i] = sep}
        first == CHOOSE i \in at : \A j \in at : i <= j
    IN  IF at = {} THEN <<src>>
        ELSE <<SubSeq(src, 1, first - 1)>> \o split(SubSeq(src, first + 1, Len(src)), sep)

\* str::trim_end_matches(c)
RECURSIVE trim_end_matches(_, _)
trim_end_matches(line, c) ==
    IF line # <<>> /\ line[Len(line)] = c
    THEN trim_end_matches(SubSeq(line, 1, Len(line) - 1), c)
    ELSE line

\* HtmlRenderer::new
HtmlRendererNew == [result |-> <<>>, current_line |-> <<>>]

\* HtmlRenderer::start_scope
start_scope(renderer, attribute_callback, s) ==
    [renderer EXCEPT !.current_line = @ \o SpanOpen \o attribute_callback[s] \o <<">">>]

\* HtmlRenderer::end_scope
end_scope(renderer) == [renderer EXCEPT !.current_line = @ \o SpanClose]

\* HtmlRenderer::finish_line
finish_line(renderer) ==
    [renderer EXCEPT !.result = Append(@, renderer.current_line \o <<"\n">>),
                     !.current_line = <<>>]

\* Faulty variant of CloseScopes: the active scopes stay open at the end of a line.
CloseNoScopes(renderer, scopes) == renderer

\* add_text: scopes.iter().for_each(|_| self.end_scope())
RECURSIVE CloseScopes(_, _)
CloseScopes(renderer, scopes) ==
    IF scopes = <<>> THEN renderer ELSE CloseScopes(end_scope(renderer), Tail(scopes))

\* add_text: scopes.iter().for_each(|highlight| self.start_scope(*highlight))
RECURSIVE ReopenScopes(_, _, _)
ReopenScopes(renderer, attribute_callback, scopes) ==
    IF scopes = <<>> THEN renderer
    ELSE ReopenScopes(start_scope(renderer, attribute_callback, Head(scopes)),
                      attribute_callback, Tail(scopes))

\* add_text: the renderer at the start of a piece of the text.
StartOfPiece(renderer, attribute_callback, scopes, multiline) ==
    IF multiline
    THEN ReopenScopes(finish_line(CloseScopes(renderer, scopes)), attribute_callback, scopes)
    ELSE renderer

\* add_text: write!(&mut self.current_line, "{}", escape::Escape(line))
WriteEscaped(renderer, line) == [renderer EXCEPT !.current_line = @ \o Escape(line)]

\* add_text: the loop over the pieces of the text from the k-th on.
RECURSIVE AddTextPieces(_, _, _, _, _)
AddTextPieces(renderer, attribute_callback, pieces, k, scopes) ==
    IF k > Len(pieces) THEN renderer
    ELSE AddTextPieces(WriteEscaped(StartOfPiece(renderer, attribute_callback, scopes, k > 1),
                                    trim_end_matches(pieces[k], "\r")),
                       attribute_callback, pieces, k + 1, scopes)

\* HtmlRenderer::add_text
add_text(renderer, attribute_callback, src, scopes) ==
    AddTextPieces(renderer, attribute_callback, split(src, "\n"), 1, scopes)

\* highlight_html: the body of the loop for one event.
RenderEvent(renderer, attribute_callback, scopes, event) ==
    IF event.kind = "HighlightStart" THEN
        [scopes |-> Append(scopes, Unwrap(event.highlight)),
         renderer |-> start_scope(renderer, attribute_callback, Unwrap(event.highlight))]
    ELSE IF event.kind = "HighlightEnd" THEN
        [scopes |-> IF scopes = <<>> THEN <<>> ELSE SubSeq(scopes, 1, Len(scopes) - 1),
         renderer |-> end_scope(renderer)]
    ELSE [scopes |-> scopes,
          renderer |-> add_text(renderer, attribute_callback, event.text, scopes)]

\* highlight_html: what follows the loop.
RenderEnd(renderer) ==
    IF renderer.current_line # <<>> THEN finish_line(renderer) ELSE renderer

----------------------------------------------------------------------------
(* Inputs: the HTML family, for highlight_html.  Streams of a few events,   *)
(* balanced or not, with texts that have line breaks and a character that   *)
(* is escaped; the stream may end with an error.                            *)

\* "a", "\n", "<\r\nb", "a\n\n"
HtmlTexts == {<<"a">>, <<"\n">>, <<"<", "\r", "\n", "b">>, <<"a", "\n", "\n">>}

HtmlEvents ==
    {RetOk(HighlightStart(h)) : h \in {"keyword", "string"}}
    \cup {RetOk(HighlightEnd)}
    \cup {RetOk(Source(text)) : text \in HtmlTexts}

\* What next() returns, call by call, up to the end of the stream or an error.
HtmlStreams ==
    SeqsUpTo(HtmlEvents, MaxEvents)
    \cup {Append(s, RetErr("Cancelled")) : s \in SeqsUpTo(HtmlEvents, MaxEvents - 1)}

\* attribute_callback
HtmlAttributes == [h \in {"keyword", "string"} |-> IF h = "keyword" THEN <<"k">> ELSE <<>>]

InitHtml ==
    \E events \in HtmlStreams :
        /\ HighlighterIs(HighlighterNew(LayersSource, PathTree, NoInjections, None), PathTree)
        /\ pure = [fn |-> "highlight_html", events |-> events, at |-> 0, scopes |-> <<>>,
                   renderer |-> HtmlRendererNew, returned |-> "no"]

\* The loop has taken the event `rendered` was made from.
Rendered(rendered) ==
    pure' = [pure EXCEPT !.at = @ + 1, !.scopes = rendered.scopes,
                         !.renderer = rendered.renderer]

\* highlight_html: one iteration of the loop over the events.
HtmlEvent ==
    /\ pure.fn = "highlight_html"
    /\ pure.returned = "no"
    /\ pure.at < Len(pure.events)
    /\ IF pure.events[pure.at + 1].tag = "Err"
       THEN pure' = [pure EXCEPT !.at = @ + 1, !.returned = "Err"]
       ELSE Rendered(RenderEvent(pure.renderer, HtmlAttributes, pure.scopes,
                                 pure.events[pure.at + 1].event))
    /\ UNCHANGED <<source, injection_callback, layers, source_offset,
                   max_opaque_layer_depth, utf8_error_len, operation_count,
                   cancellation_flag, result, log, calls, calls_since_cancel, root_tree>>

\* highlight_html: the iterator is exhausted; the last line is finished and
\* the lines are returned.
HtmlReturn ==
    /\ pure.fn = "highlight_html"
    /\ pure.returned = "no"
    /\ pure.at = Len(pure.events)
    /\ pure' = [pure EXCEPT !.renderer = RenderEnd(@), !.returned = "Ok"]
    /\ UNCHANGED <<source, injection_callback, layers, source_offset,
                   max_opaque_layer_depth, utf8_error_len, operation_count,
                   cancellation_flag, result, log, calls, calls_since_cancel, root_tree>>

NextHtml == HtmlEvent \/ HtmlReturn

SpecHtml == InitHtml /\ [][NextHtml]_vars

----------------------------------------------------------------------------
(* The wire names of Highlight.  Here a Highlight is written by the name of *)
(* its variant and a wire name is the string serde reads or writes.         *)

\* pub enum Highlight
HighlightVariants ==
    {"Attribute", "Comment", "Constant", "ConstantBuiltin", "Constructor",
     "ConstructorBuiltin", "Embedded", "Escape", "Function",
     "FunctionBuiltin", "Keyword", "Number", "Operator", "Property",
     "PropertyBuiltin", "Punctuation", "PunctuationBracket",
     "PunctuationDelimiter", "PunctuationSpecial", "String", "StringSpecial",
     "Tag", "Type", "TypeBuiltin", "Variable", "VariableBuiltin",
     "VariableParameter", "Unknown"}

\* Faulty variant of deserialize: the arm for "tag" is missing.
DeserializeWithoutTag(s) ==
    CASE s = "attribute" -> "Attribute"
      [] s = "comment" -> "Comment"
      [] s = "constant" -> "Constant"
      [] s = "constant.builtin" -> "ConstantBuiltin"
      [] s = "constructor" -> "Constructor"
      [] s = "constructor.builtin" -> "ConstructorBuiltin"
      [] s = "embedded" -> "Embedded"
      [] s = "escape" -> "Escape"
      [] s = "function" -> "Function"
      [] s = "function.builtin" -> "FunctionBuiltin"
      [] s = "keyword" -> "Keyword"
      [] s = "number" -> "Number"
      [] s = "operator" -> "Operator"
      [] s = "property" -> "Property"
      [] s = "property.builtin" -> "PropertyBuiltin"
      [] s = "punctuation" -> "Punctuation"
      [] s = "punctuation.bracket" -> "PunctuationBracket"
      [] s = "punctuation.delimiter" -> "PunctuationDelimiter"
      [] s = "punctuation.special" -> "PunctuationSpecial"
      [] s = "string" -> "String"
      [] s = "string.special" -> "StringSpecial"
      [] s = "type" -> "Type"
      [] s = "type.builtin" -> "TypeBuiltin"
      [] s = "variable" -> "Variable"
      [] s = "variable.builtin" -> "VariableBuiltin"
      [] s = "variable.parameter" -> "VariableParameter"
      [] OTHER -> "Unknown"

\* impl Deserialize for Highlight: the match on s.as_str()
deserialize(s) ==
    CASE s = "attribute" -> "Attribute"
      [] s = "comment" -> "Comment"
      [] s = "constant" -> "Constant"
      [] s = "constant.builtin" -> "ConstantBuiltin"
      [] s = "constructor" -> "Constructor"
      [] s = "constructor.builtin" -> "ConstructorBuiltin"
      [] s = "embedded" -> "Embedded"
      [] s = "escape" -> "Escape"
      [] s = "function" -> "Function"
      [] s = "function.builtin" -> "FunctionBuiltin"
      [] s = "keyword" -> "Keyword"
      [] s = "number" -> "Number"
      [] s = "operator" -> "Operator"
      [] s = "property" -> "Property"
      [] s = "property.builtin" -> "PropertyBuiltin"
      [] s = "punctuation" -> "Punctuation"
      [] s = "punctuation.bracket" -> "PunctuationBracket"
      [] s = "punctuation.delimiter" -> "PunctuationDelimiter"
      [] s = "punctuation.special" -> "PunctuationSpecial"
      [] s = "string" -> "String"
      [] s = "string.special" -> "StringSpecial"
      [] s = "type" -> "Type"
      [] s = "type.builtin" -> "TypeBuiltin"
      [] s = "variable" -> "Variable"
      [] s = "variable.builtin" -> "VariableBuiltin"
      [] s = "variable.parameter" -> "VariableParameter"
      [] s = "tag" -> "Tag"
      [] OTHER -> "Unknown"

\* impl Serialize for Highlight: the match on self
serialize(h) ==
    CASE h = "Attribute" -> "attribute"
      [] h = "Comment" -> "comment"
      [] h = "Constant" -> "constant"
      [] h = "ConstantBuiltin" -> "constant.builtin"
      [] h = "Constructor" -> "constructor"
      [] h = "ConstructorBuiltin" -> "constructor.builtin"
      [] h = "Embedded" -> "embedded"
      [] h = "Escape" -> "escape"
      [] h = "Function" -> "function"
      [] h = "FunctionBuiltin" -> "function.builtin"
      [] h = "Keyword" -> "keyword"
      [] h = "Number" -> "number"
      [] h = "Operator" -> "operator"
      [] h = "Property" -> "property"
      [] h = "PropertyBuiltin" -> "property.builtin"
      [] h = "Punctuation" -> "punctuation"
      [] h = "PunctuationBracket" -> "punctuation.bracket"
      [] h = "PunctuationDelimiter" -> "punctuation.delimiter"
      [] h = "PunctuationSpecial" -> "punctuation.special"
      [] h = "String" -> "string"
      [] h = "StringSpecial" -> "string.special"
      [] h = "Type" -> "type"
      [] h = "TypeBuiltin" -> "type.builtin"
      [] h = "Variable" -> "variable"
      [] h = "VariableBuiltin" -> "variable.builtin"
      [] h = "VariableParameter" -> "variable.parameter"
      [] h = "Tag" -> "tag"
      [] h = "Unknown" -> ""

----------------------------------------------------------------------------
(* Inputs: the wire family, for the conversions of Highlight.  A run starts *)
(* from a variant or from a string and converts back and forth.             *)

\* Strings that name no variant: the empty string, names in another case or
\* with something added or missing, the name of a variant.
OtherWireNames ==
    {"", "unknown", "Unknown", "Keyword", "keyword.", "keyword.builtin", "tag ", ".", "tags",
     "strin", "TAG", "constant_builtin", "constant.", "variable.parameter.x", "none"}

\* The strings that are given to deserialize.
WireNameInputs == {serialize(h) : h \in HighlightVariants} \cup OtherWireNames

AValue(h) == [is |-> "Highlight", v |-> h]
AString(s) == [is |-> "String", v |-> s]

InitWire ==
    \E first \in {AValue(h) : h \in HighlightVariants} \cup {AString(s) : s \in WireNameInputs} :
        /\ HighlighterIs(HighlighterNew(LayersSource, PathTree, NoInjections, None), PathTree)
        /\ pure = [fn |-> "wire", trail |-> <<first>>]

\* The last value of the trail is serialized.
CallSerialize ==
    /\ pure.fn = "wire"
    /\ Len(pure.trail) <= 2 * MaxRoundTrips
    /\ pure.trail[Len(pure.trail)].is = "Highlight"
    /\ pure' = [pure EXCEPT !.trail = Append(@, AString(serialize(pure.trail[Len(pure.trail)].v)))]
    /\ UNCHANGED <<source, injection_callback, layers, source_offset,
                   max_opaque_layer_depth, utf8_error_len, operation_count,
                   cancellation_flag, result, log, calls, calls_since_cancel, root_tree>>

\* The last string of the trail is deserialized.
CallDeserialize ==
    /\ pure.fn = "wire"
    /\ Len(pure.trail) <= 2 * MaxRoundTrips
    /\ pure.trail[Len(pure.trail)].is = "String"
    /\ pure' = [pure EXCEPT !.trail = Append(@, AValue(deserialize(pure.trail[Len(pure.trail)].v)))]
    /\ UNCHANGED <<source, injection_callback, layers, source_offset,
                   max_opaque_layer_depth, utf8_error_len, operation_count,
                   cancellation_flag, result, log, calls, calls_since_cancel, root_tree>>

NextWire == CallSerialize \/ CallDeserialize

SpecWire == InitWire /\ [][NextWire]_vars

----------------------------------------------------------------------------
(* Inputs: the walk family, for Layer::advance.  One layer over every tree  *)
(* of a few nodes; each leaf is one byte of the source, each inner node     *)
(* spans its leaves; every node, the root too, may be a definition, a       *)
(* reference or a scope.                                                    *)

\* a is j or an ancestor of j, in the tree whose nodes have the parents p.
RECURSIVE IsSelfOrAncestor(_, _, _)
IsSelfOrAncestor(p, a, j) ==
    IF j = 0 THEN FALSE ELSE IF a = j THEN TRUE ELSE IsSelfOrAncestor(p, a, p[j])

\* The trees of n nodes, as the parent of each node in document order.
WalkShapes(n) ==
    {p \in [1..n -> 0..(n - 1)] :
        /\ p[1] = 0
        /\ \A i \in 2..n : p[i] >= 1 /\ IsSelfOrAncestor(p, p[i], i - 1)}

WalkLeaves(p) == {i \in DOMAIN p : \A j \in DOMAIN p : p[j] # i}

\* The properties the sheet can give a node.
WalkProps(role) ==
    CASE role = "def1" -> Properties(Some("variable.parameter"), None, <<>>, None, TRUE, FALSE)
      [] role = "def2" -> Properties(Some("function"), None, <<>>, None, TRUE, FALSE)
      [] role = "ref" -> Properties(Some("property"), Some("variable"), <<>>, None, FALSE, TRUE)
      [] role = "defrefbare" -> Properties(None, None, <<>>, None, TRUE, TRUE)
      [] role = "scope" -> Properties(None, None, <<>>, Some(TRUE), FALSE, FALSE)
      [] role = "scopeclosed" -> Properties(None, None, <<>>, Some(FALSE), FALSE, FALSE)
      [] role = "defscope" -> Properties(Some("function"), None, <<>>, Some(TRUE), TRUE, FALSE)
      [] OTHER -> NoProperties

WalkRoles == {"def1", "def2", "ref", "defrefbare", "scope", "scopeclosed", "defscope", "plain"}

\* The tree of the shape p whose nodes have the roles given.
WalkTree(p, roles) ==
    [i \in DOMAIN p |->
        LET start == Cardinality({j \in WalkLeaves(p) : j < i})
            width == Cardinality({j \in WalkLeaves(p) : IsSelfOrAncestor(p, i, j)})
        IN  TreeNode(p[i], start, start + width, 1, WalkProps(roles[i]))]

InitWalk ==
    \E n \in 1..MaxWalkNodes :
        \E p \in WalkShapes(n) :
            \E roles \in [1..n -> WalkRoles] :
                \E src \in [1..Cardinality(WalkLeaves(p)) -> LocalNames] :
                    /\ src[1] = 97
                    /\ HighlighterIs(HighlighterNew(LayersSource, PathTree, NoInjections, None), PathTree)
                    /\ pure = [fn |-> "advance", src |-> src,
                               layer |-> LayerNew(WalkTree(p, roles), <<ByteRange(0, Len(src))>>, 0, TRUE),
                               before |-> <<>>, rets |-> <<>>, entered |-> <<>>, left |-> <<>>]

\* The layer has advanced: the layer it was, what advance returned and the nodes
\* enter_node and leave_node were called at are kept.
Advanced(advanced) ==
    pure' = [pure EXCEPT !.layer = advanced.layer,
                         !.before = Append(@, pure.layer),
                         !.rets = Append(@, advanced.ret),
                         !.entered = @ \o advanced.entered,
                         !.left = @ \o advanced.left]

\* One call of advance(), as long as it has not returned false.
CallAdvance ==
    /\ pure.fn = "advance"
    /\ \A i \in 1..Len(pure.rets) : pure.rets[i]
    /\ Advanced(advance(pure.layer, pure.src))
    /\ UNCHANGED <<source, injection_callback, layers, source_offset,
                   max_opaque_layer_depth, utf8_error_len, operation_count,
                   cancellation_flag, result, log, calls, calls_since_cancel, root_tree>>

NextWalk == CallAdvance

SpecWalk == InitWalk /\ [][NextWalk]_vars

----------------------------------------------------------------------------
(* What the history shows *)

\* The events next() returned so far, in order, by kind.
SourceEvents == SelectSeq(log, LAMBDA e : e.op = "Source")
HighlightEvents == SelectSeq(log, LAMBDA e : e.op \in {"HighlightStart", "HighlightEnd"})

\* The number of events of kind op among the first k highlight events.
CountOf(op, k) == Cardinality({i \in 1..k : HighlightEvents[i].op = op})

\* The texts of the Source events, concatenated.
EmittedText == Concat([i \in 1..Len(SourceEvents) |-> SourceEvents[i].text])

\* The source with every maximal run of invalid sequences replaced by one
\* U+FFFD, up to an incomplete trailing sequence, which is left out.
RECURSIVE Replaced(_, _, _)
Replaced(v, i, in_run) ==
    IF i > Len(v) THEN <<>>
    ELSE LET s == Utf8Step(v, i)
         IN  IF s.ok THEN SubSeq(v, i, i + s.valid_up_to - 1)
                          \o Replaced(v, i + s.valid_up_to, FALSE)
             ELSE IF s.error_len = None THEN <<>>
             ELSE (IF in_run THEN <<>> ELSE REPLACEMENT_CHARACTER_TEXT)
                  \o Replaced(v, i + Unwrap(s.error_len), TRUE)

\* The texts the reassembly rule allows for a source: the incomplete trailing
\* sequence, if any, is dropped or replaced.
Reassembled(v) ==
    {Replaced(v, 1, FALSE)} \cup
    (IF ~decode_utf8(v).ok /\ decode_utf8(v).error_len = None
     THEN {Replaced(v, 1, FALSE) \o REPLACEMENT_CHARACTER_TEXT} ELSE {})

----------------------------------------------------------------------------
(* Local scoping as the specification states it, read off the tree *)

NodeText(tree, src, n) == bytes(src, tree[n].start_byte, tree[n].end_byte)

\* The scope a node lies in: its nearest proper ancestor that opens a scope,
\* or 0 for the root scope of the layer.  (The root node is never entered, so
\* it opens no scope of its own.)
RECURSIVE EnclosingScope(_, _)
EnclosingScope(tree, n) ==
    LET p == tree[n].parent
    IN  IF p = 0 THEN 0
        ELSE IF p # 1 /\ IsSome(tree[p].props.local_scope) THEN p
        ELSE EnclosingScope(tree, p)

ScopeInherits(tree, s) == s # 0 /\ Unwrap(tree[s].props.local_scope)

\* The scopes around s, s included, out to the root scope.
RECURSIVE ScopesAround(_, _)
ScopesAround(tree, s) ==
    IF s = 0 THEN {0} ELSE {s} \cup ScopesAround(tree, EnclosingScope(tree, s))

\* The scopes a lookup from scope s may consult: s, and what lies around it
\* as long as every scope passed inherits.
RECURSIVE ReachableScopes(_, _)
ReachableScopes(tree, s) ==
    IF ScopeInherits(tree, s) THEN {s} \cup ReachableScopes(tree, EnclosingScope(tree, s))
    ELSE {s}

\* The definitions in scope s that bind the text of node n; with ordered, only
\* those that precede n in document order.
Bindings(tree, src, s, n, ordered) ==
    {d \in 2..Len(tree) :
        /\ tree[d].props.local_definition
        /\ IsSome(tree[d].props.highlight)
        /\ EnclosingScope(tree, d) = s
        /\ NodeText(tree, src, d) = NodeText(tree, src, n)
        /\ ordered => d < n}

\* The highlight of the binding a reference n resolves to, looked up from s.
RECURSIVE Resolve(_, _, _, _, _)
Resolve(tree, src, s, n, ordered) ==
    LET found == Bindings(tree, src, s, n, ordered)
    IN  IF found # {}
        THEN tree[CHOOSE d \in found : \A e \in found : d <= e].props.highlight
        ELSE IF ScopeInherits(tree, s)
        THEN Resolve(tree, src, EnclosingScope(tree, s), n, ordered)
        ELSE None

\* The class the HighlightStart of reference n is to carry.
ExpectedClass(tree, src, n, ordered) ==
    OptOr(Resolve(tree, src, EnclosingScope(tree, n), n, ordered),
          OptOr(tree[n].props.highlight_nonlocal, tree[n].props.highlight))

\* A node that is a reference and not also a definition.
IsPureReference(tree, n) ==
    tree[n].props.local_reference /\ ~tree[n].props.local_definition

\* A reference that lies inside a local_scope subtree.
IsScopedReference(tree, n) == IsPureReference(tree, n) /\ EnclosingScope(tree, n) # 0

\* A node with local_reference inside a local_scope subtree; with pure_only,
\* one that is not also a definition.
IsReferenceInScope(tree, n, pure_only) ==
    /\ tree[n].props.local_reference
    /\ EnclosingScope(tree, n) # 0
    /\ pure_only => ~tree[n].props.local_definition

\* The HighlightStart events of the root layer's references inside a scope carry
\* the expected class, and at the end every such reference with a class has got
\* its event.
ReferencesResolved(ordered, pure_only) ==
    /\ \A i \in 1..Len(log) :
           (log[i].op = "HighlightStart" /\ log[i].depth = 0
            /\ IsReferenceInScope(root_tree, log[i].node, pure_only))
           => log[i].highlight = ExpectedClass(root_tree, source, log[i].node, ordered)
    /\ result.tag = "None" =>
           \A n \in 2..Len(root_tree) :
               (IsReferenceInScope(root_tree, n, pure_only)
                /\ IsSome(ExpectedClass(root_tree, source, n, ordered)))
               => \E i \in 1..Len(log) :
                      log[i].op = "HighlightStart" /\ log[i].depth = 0 /\ log[i].node = n

----------------------------------------------------------------------------
(* Claims *)

\* C1 (reassembly): when the iteration has reached end-of-stream, the texts of
\* the Source events concatenate to the source bytes in order, every maximal
\* invalid run replaced by one U+FFFD (an incomplete trailing sequence may be
\* dropped): no valid byte is omitted, reordered or emitted twice.
C1_Reassembly == result.tag = "None" => EmittedText \in Reassembled(source)

\* C10 (valid-prefix rule): when next() has emitted a valid prefix [a, a+v) and
\* holds a pending invalid sequence of length e, the very next call returns one
\* U+FFFD and leaves source_offset = a + v + e.
C10_ValidPrefixStep ==
    IsSome(utf8_error_len) =>
        /\ result'.tag = "Ok"
        /\ result'.event = Source(REPLACEMENT_CHARACTER_TEXT)
        /\ source_offset' = log[Len(log)].offset + Len(log[Len(log)].text)
                            + Unwrap(utf8_error_len)
C10_ValidPrefixRule == [][C10_ValidPrefixStep]_vars

C6_NonInheritingScope ==
    \A i \in 1..Len(layers) :
        LET layer == layers[i]
            n == layer.cursor
            reachable == ReachableScopes(layer.tree, EnclosingScope(layer.tree, n))
        IN  (~layer.at_node_end /\ n # 1 /\ IsPureReference(layer.tree, n))
            => (IsSome(layer.local_highlight)
                <=> \E s \in reachable : Bindings(layer.tree, source, s, n, TRUE) # {})

\* C6 witness: a layer at a reference whose text is bound, by a preceding
\* definition, only outside a non-inheriting scope; local_highlight is None.
C6_Witness ==
    \E i \in 1..Len(layers) :
        LET layer == layers[i]
            n == layer.cursor
            inner == EnclosingScope(layer.tree, n)
        IN  /\ ~layer.at_node_end /\ n # 1 /\ IsPureReference(layer.tree, n)
            /\ layer.local_highlight = None
            /\ \E s \in ScopesAround(layer.tree, inner) \ ReachableScopes(layer.tree, inner) :
                   Bindings(layer.tree, source, s, n, TRUE) # {}

\* C2 (as stated): the HighlightStart/HighlightEnd events are well matched: no
\* prefix of the event stream has more ends than starts, and when the iteration
\* has reached the end of the stream without error the two counts are equal.
C2_BalancedNesting ==
    /\ \A k \in 1..Len(HighlightEvents) :
           CountOf("HighlightEnd", k) <= CountOf("HighlightStart", k)
    /\ result.tag = "None" =>
           CountOf("HighlightEnd", Len(HighlightEvents))
               = CountOf("HighlightStart", Len(HighlightEvents))

\* The offsets at which a tree (the root tree or the tree of a live layer) has a
\* node of zero width.
ZeroWidthOffsets ==
    {root_tree[n].start_byte :
        n \in {m \in 1..Len(root_tree) : root_tree[m].start_byte = root_tree[m].end_byte}}
    \cup UNION {{layers[i].tree[n].start_byte :
                    n \in {m \in 1..Len(layers[i].tree) :
                              layers[i].tree[m].start_byte = layers[i].tree[m].end_byte}} :
                i \in 1..Len(layers)}

\* Two highlight events, a emitted before b, are in the order of the claim:
\* by offset, then ends before starts, then the shallower layer first.
InEventOrder(a, b) ==
    /\ a.offset <= b.offset
    /\ a.offset = b.offset =>
           /\ ~(a.op = "HighlightStart" /\ b.op = "HighlightEnd")
           /\ a.op = b.op => a.depth <= b.depth

\* C3 (as stated): highlight events come in the order of their offsets; at one
\* offset every HighlightEnd comes before every HighlightStart, and within one
\* offset and phase the event of the shallower layer comes first.
C3_EventOrdering ==
    \A i, j \in 1..Len(HighlightEvents) :
        i < j => InEventOrder(HighlightEvents[i], HighlightEvents[j])

\* C3 as amended: the same, except that at an offset where a tree has a node
\* of zero width only the order by offset is kept.
C3_EventOrderingButZeroWidth ==
    \A i, j \in 1..Len(HighlightEvents) :
        i < j =>
            /\ HighlightEvents[i].offset <= HighlightEvents[j].offset
            /\ HighlightEvents[i].offset \notin ZeroWidthOffsets =>
                   InEventOrder(HighlightEvents[i], HighlightEvents[j])

\* C4 (as stated): no HighlightStart or HighlightEnd comes from a layer, and no
\* injection of a layer is installed, at an offset inside the ranges of a live
\* opaque layer that is deeper.
C4_Occlusion ==
    \A i \in 1..Len(log) :
        log[i].op \in {"HighlightStart", "HighlightEnd", "install"} => ~log[i].covered

\* C3's case: at an offset with no zero-width node, a HighlightEnd was followed
\* by a HighlightStart, and two layers of different depths have emitted events
\* of one phase.
C3_Witness ==
    /\ \E i, j \in 1..Len(HighlightEvents) :
           /\ i < j
           /\ HighlightEvents[i].offset = HighlightEvents[j].offset
           /\ HighlightEvents[i].offset \notin ZeroWidthOffsets
           /\ HighlightEvents[i].op = "HighlightEnd"
           /\ HighlightEvents[j].op = "HighlightStart"
    /\ \E i, j \in 1..Len(HighlightEvents) :
           /\ i < j
           /\ HighlightEvents[i].offset = HighlightEvents[j].offset
           /\ HighlightEvents[i].offset \notin ZeroWidthOffsets
           /\ HighlightEvents[i].op = HighlightEvents[j].op
           /\ HighlightEvents[i].depth < HighlightEvents[j].depth

\* C7: once the flag is nonzero (and stays so), a call among the next 100 calls
\* of next() returns Err(Cancelled); and Err(Cancelled) is returned only when a
\* flag was supplied and is nonzero.
C7_CancellationWithin100Calls ==
    /\ calls_since_cancel <= CANCELLATION_CHECK_INTERVAL
    /\ calls_since_cancel = CANCELLATION_CHECK_INTERVAL => result = RetErr("Cancelled")
    /\ result = RetErr("Cancelled") =>
           IsSome(cancellation_flag) /\ Unwrap(cancellation_flag) # 0

\* C7's case: the flag went nonzero in the middle of the iteration and the
\* 100th call after that returned Err(Cancelled).
C7_Witness ==
    /\ result = RetErr("Cancelled")
    /\ calls_since_cancel = CANCELLATION_CHECK_INTERVAL
    /\ calls > calls_since_cancel

\* The bytes a list of ranges covers.
BytesOf(ranges) ==
    {b \in 0..MaxRangeByte :
        \E i \in 1..Len(ranges) : ranges[i].start_byte <= b /\ b < ranges[i].end_byte}

\* Range a lies within range (or node) b.
Within(a, b) == b.start_byte <= a.start_byte /\ a.end_byte <= b.end_byte

\* The bytes intersect_ranges has to return: those of the parent ranges that lie
\* in a content node and, unless includes_children, in none of its children.
PrescribedBytes ==
    {b \in BytesOf(pure.parent_ranges) :
        \E i \in 1..Len(pure.nodes) :
            /\ b \in BytesOf(<<root_tree[pure.nodes[i]]>>)
            /\ pure.includes_children
                   \/ \A c \in 1..Len(root_tree) :
                          root_tree[c].parent = pure.nodes[i] =>
                              b \notin BytesOf(<<root_tree[c]>>)}

\* C8: every range intersect_ranges returns is non-empty, the ranges are sorted
\* and pairwise disjoint, and each lies within one parent range and within the
\* span of one content node.
C8_IntersectRangesSound ==
    (pure.fn = "intersect_ranges" /\ pure.done) =>
        LET ranges == pure.result.ranges
        IN  /\ ~pure.result.panicked
            /\ \A i \in 1..Len(ranges) :
                   /\ ranges[i].start_byte < ranges[i].end_byte
                   /\ \E k \in 1..Len(pure.parent_ranges) :
                          Within(ranges[i], pure.parent_ranges[k])
                   /\ \E k \in 1..Len(pure.nodes) :
                          Within(ranges[i], root_tree[pure.nodes[k]])
            /\ \A i, j \in 1..Len(ranges) :
                   i < j => ranges[i].end_byte <= ranges[j].start_byte

\* C8's case: a call that returned several ranges, from a node with a child
\* left out and under several parent ranges.
C8_Witness ==
    /\ pure.fn = "intersect_ranges" /\ pure.done
    /\ Len(pure.result.ranges) >= 3
    /\ Len(pure.parent_ranges) >= 2
    /\ ~pure.includes_children
    /\ \E c \in 1..Len(root_tree) :
           root_tree[c].parent \in {pure.nodes[i] : i \in 1..Len(pure.nodes)}

\* C9: the ranges intersect_ranges returns cover exactly the bytes of the parent
\* ranges that lie in a content node, less the bytes of the content nodes'
\* children when includes_children is false.
C9_IntersectRangesComplete ==
    (pure.fn = "intersect_ranges" /\ pure.done) =>
        BytesOf(pure.result.ranges) = PrescribedBytes

\* C9's cases: one gap between excluded ranges reaches over several parent
\* ranges (a content node without children over two parent ranges); or two
\* content nodes lie in one parent range and both contribute.
C9_Witness ==
    /\ pure.fn = "intersect_ranges" /\ pure.done
    /\ PrescribedBytes # {}
    /\ \/ /\ Len(pure.nodes) = 1
          /\ pure.includes_children
          /\ Cardinality({k \in 1..Len(pure.parent_ranges) :
                             BytesOf(<<pure.parent_ranges[k]>>)
                                 \cap BytesOf(<<root_tree[pure.nodes[1]]>>) # {}}) >= 2
          /\ \E c \in 1..Len(root_tree) :
                 /\ root_tree[c].parent = pure.nodes[1]
                 /\ root_tree[c].start_byte < root_tree[c].end_byte
       \/ /\ Len(pure.nodes) = 2
          /\ \E k \in 1..Len(pure.parent_ranges) :
                 \A i \in 1..2 : Within(root_tree[pure.nodes[i]], pure.parent_ranges[k])
          /\ Len(pure.result.ranges) >= 2

----------------------------------------------------------------------------
(* C11 *)

\* A valid text that Source events have not yet covered starts at source_offset.
ValidPrefixRemains ==
    LET decoded == decode_utf8(bytes(source, source_offset, max_len(source)))
    IN  IF decoded.ok THEN source_offset < max_len(source) ELSE decoded.valid_up_to > 0

\* C11: invalid UTF-8 in the source is never fatal: next() returns no Err on
\* such a source, and it returns None only when every layer is exhausted and
\* no valid, not yet emitted prefix of the source remains.
C11_Utf8NeverFatal ==
    /\ result.tag # "Err"
    /\ result.tag = "None" => layers = <<>> /\ ~ValidPrefixRemains

----------------------------------------------------------------------------
(* C12 *)

\* The list ls is sorted non-decreasingly by Layer::cmp.
IsSortedByCmp(ls) == \A i \in 1..(Len(ls) - 1) : cmp(ls[i], ls[i + 1]) # "Greater"

\* C12 (I2): after Highlighter::new and after every return of next(), the
\* layer list is sorted non-decreasingly by the comparator: offset ascending,
\* then at_node_end = true first, then depth ascending.
C12_LayersSorted == IsSortedByCmp(layers)

\* Layers were inserted, and the head that was advanced has been moved
\* behind a layer that was inserted after it: a deeper layer is now first.
C12_Witness ==
    /\ Len(layers) >= 2
    /\ \E i \in 1..Len(log) : log[i].op = "install"
    /\ layers[1].depth > layers[2].depth
    /\ cmp(layers[1], layers[2]) = "Less"

----------------------------------------------------------------------------
(* C13 *)

\* The maximum depth over the opaque layers of ls, or 0 when none is opaque.
MaxOpaqueDepthOf(ls) ==
    LET depths == {ls[i].depth : i \in {j \in 1..Len(ls) : ls[j].opaque}}
    IN  IF depths = {} THEN 0 ELSE CHOOSE d \in depths : \A e \in depths : e <= d

\* C13 (I6): after Highlighter::new and after every return of next(),
\* max_opaque_layer_depth is the maximum depth over the opaque layers in the
\* list, or 0 when no opaque layer remains.
C13_MaxOpaqueLayerDepth == max_opaque_layer_depth = MaxOpaqueDepthOf(layers)

\* An opaque layer of depth 2 was installed over a layer of depth 1; both have
\* been removed again and the root layer is still live.
C13_Witness ==
    /\ \E i \in 1..Len(log) : log[i].op = "install" /\ log[i].depth = 2
    /\ \E i \in 1..Len(log) : log[i].op = "install" /\ log[i].depth = 1
    /\ Len(layers) = 1
    /\ layers[1].depth = 0
    /\ max_opaque_layer_depth = 0

----------------------------------------------------------------------------
(* C14 *)

\* C14: highlight_nonlocal is applied only to unresolved references: a
\* HighlightStart of the root layer carries the node's highlight_nonlocal only
\* if the node has local_reference and no definition in scope binds its text,
\* and a node that has highlight_nonlocal and highlight without being a
\* local_reference is emitted with highlight.
C14_NonlocalOnlyForUnresolvedReferences ==
    \A i \in 1..Len(log) :
        (log[i].op = "HighlightStart" /\ log[i].depth = 0) =>
            LET props == root_tree[log[i].node].props
            IN  /\ (IsSome(props.highlight_nonlocal)
                    /\ log[i].highlight = props.highlight_nonlocal
                    /\ props.highlight_nonlocal # props.highlight)
                   => /\ props.local_reference
                      /\ Resolve(root_tree, source, EnclosingScope(root_tree, log[i].node),
                                 log[i].node, TRUE) = None
                /\ (IsSome(props.highlight_nonlocal) /\ IsSome(props.highlight)
                    /\ ~props.local_reference)
                   => log[i].highlight = props.highlight

----------------------------------------------------------------------------
(* C15 *)

\* The receiver of a form, its index (the last number) and its kind names.
ReceiverOf(p) == p.args[1].path
IndexOfForm(p) ==
    LET numbers == {k \in 2..Len(p.args) : p.args[k].arg = "Number"}
    IN  p.args[CHOOSE k \in numbers : \A j \in numbers : j <= k].number
KindNamesOf(p) == {p.args[k].string : k \in {j \in 2..Len(p.args) : p.args[j].arg = "String"}}

\* A child c passes the kind names of a form: there are none, or c is of a
\* named kind with one of the names.
PassesKinds(tree, language, p, c) ==
    \/ KindNamesOf(p) = {}
    \/ /\ language[tree[c].kind_id + 1].named
       /\ language[tree[c].kind_id + 1].kind \in KindNamesOf(p)

\* What the outer form of p selects from one receiver node r.
SelectedFrom(tree, language, p, r) ==
    LET children == NodeChildren(tree, r)
        passing == SelectSeq(children, LAMBDA c : PassesKinds(tree, language, p, c))
        at == IF IndexOfForm(p) >= 0 THEN IndexOfForm(p) + 1
              ELSE Len(children) + IndexOfForm(p) + 1
    IN  IF p.name = "children" THEN passing
        ELSE IF at >= 1 /\ at <= Len(children) /\ PassesKinds(tree, language, p, children[at])
        THEN <<children[at]>> ELSE <<>>

\* The nested path evaluated recursively from node n: the receiver first, then
\* the selection of the outer form from every node of the receiver, in order.
RECURSIVE EvalPath(_, _, _, _)
EvalPath(tree, language, p, n) ==
    IF p.name = "this" THEN <<n>>
    ELSE LET receivers == EvalPath(tree, language, ReceiverOf(p), n)
         IN  Concat([i \in 1..Len(receivers) |-> SelectedFrom(tree, language, p, receivers[i])])

\* The names of the forms of a path, the innermost first.
RECURSIVE FormsInnermostFirst(_)
FormsInnermostFirst(p) ==
    IF p.name = "this" THEN <<>> ELSE Append(FormsInnermostFirst(ReceiverOf(p)), p.name)

\* The path has no next form.
RECURSIVE HasNoNext(_)
HasNoNext(p) == p.name = "this" \/ (p.name # "next" /\ HasNoNext(ReceiverOf(p)))

StepName(step) ==
    CASE step.step = "Child" -> "child" [] step.step = "Children" -> "children"
      [] OTHER -> "next"

\* C15 (flattening equivalence): for a well-formed nested path built from this,
\* child and children, the steps of flatten_tree_path are one per form, the
\* innermost first, and running them from a node with process_tree_step gives
\* the node sequence of the recursive evaluation of the nested path.
C15_FlatteningEquivalence ==
    (pure.fn = "tree_path" /\ pure.done /\ pure.flattened.ok /\ HasNoNext(pure.path)) =>
        /\ [k \in 1..Len(pure.flattened.value) |-> StepName(pure.flattened.value[k])]
               = FormsInnermostFirst(pure.path)
        /\ ~pure.found.panicked
        /\ pure.found.nodes = EvalPath(root_tree, SheetLanguage, pure.path, pure.node)

\* A path of two different forms, the outer one with kind names, was flattened
\* and run, and selects several nodes.
C15_Witness ==
    /\ pure.fn = "tree_path" /\ pure.done /\ pure.flattened.ok /\ HasNoNext(pure.path)
    /\ Len(pure.flattened.value) = 2
    /\ pure.flattened.value[1].step # pure.flattened.value[2].step
    /\ IsSome(pure.flattened.value[2].kinds)
    /\ Len(pure.found.nodes) >= 2

----------------------------------------------------------------------------
(* C16 *)

\* The record the sheet was loaded from, when PropertySheet::new accepted the text.
LoadedRecord == pure.json.records[1]

\* The load of a sheet with one record has returned or panicked.
LoadDone == pure.fn = "load_property_sheet" /\ pure.done /\ pure.json.error = None

\* An injection field that is a list containing a list.
HasListOfLists(field) ==
    /\ IsSome(field)
    /\ Unwrap(field).json = "List"
    /\ \E k \in 1..Len(Unwrap(field).list) : Unwrap(field).list[k].json = "List"

\* The load returned Err(InvalidFormat) as a value.
IsInvalidFormat(loaded) == ~loaded.ok /\ ~loaded.panicked /\ loaded.err = "InvalidFormat"

\* C16: when injection-language or injection-content is a list that contains
\* a list, load_property_sheet returns Err(InvalidFormat) as a value: it does
\* not panic and does not succeed.
C16_ListOfListsIsInvalidFormat ==
    (LoadDone /\ (HasListOfLists(LoadedRecord.injection_language)
                  \/ HasListOfLists(LoadedRecord.injection_content)))
    => IsInvalidFormat(pure.loaded)

----------------------------------------------------------------------------
(* C17 *)

\* The elements of an injection field, a single value promoted to a list of one.
PromotedList(field) ==
    IF Unwrap(field).json = "List" THEN Unwrap(field).list ELSE <<Unwrap(field)>>

\* The tree paths among the elements of an injection field.
PathsOfField(field) ==
    {PromotedList(field)[k].path :
        k \in {j \in 1..Len(PromotedList(field)) : PromotedList(field)[j].json = "TreePath"}}

\* Some child form of the path has no numeric index.
RECURSIVE ChildLacksIndex(_)
ChildLacksIndex(p) ==
    /\ p.name # "this"
    /\ \/ p.name = "child" /\ \A k \in 2..Len(p.args) : p.args[k].arg # "Number"
       \/ ChildLacksIndex(ReceiverOf(p))

\* Some form of the path has kind names of which none is a named kind.
RECURSIVE KindsNameNothing(_)
KindsNameNothing(p) ==
    /\ p.name # "this"
    /\ \/ /\ KindNamesOf(p) # {}
          /\ \A i \in 1..Len(SheetLanguage) :
                 ~(SheetLanguage[i].named /\ SheetLanguage[i].kind \in KindNamesOf(p))
       \/ KindsNameNothing(ReceiverOf(p))

\* The injection the loader is to make of the i-th language and content.
PairedInjection(record, i) ==
    LET l == PromotedList(record.injection_language)[i]
        c == PromotedList(record.injection_content)[i]
    IN  [language |-> IF l.json = "Literal" THEN Literal(l.string)
                      ELSE TreePath(flatten_tree_path(l.path, <<>>, SheetLanguage).value),
         content |-> flatten_tree_path(c.path, <<>>, SheetLanguage).value]

\* C17 (injection consistency), for fields without a list in a list: the load
\* is an InvalidFormat error when exactly one of injection-language and
\* injection-content is present, when their promoted lengths differ, when a
\* child form has no numeric index, or when kind names resolve to no named
\* kind; with both absent the injection list is empty; with both present, of
\* equal length n and well-formed, there are exactly n injections, the i-th
\* pairing language i with content i.
C17_InjectionConsistency ==
    (LoadDone /\ ~HasListOfLists(LoadedRecord.injection_language)
              /\ ~HasListOfLists(LoadedRecord.injection_content)) =>
        LET l == LoadedRecord.injection_language
            c == LoadedRecord.injection_content
            both == IsSome(l) /\ IsSome(c)
            paths == PathsOfField(l) \cup PathsOfField(c)
        IN  /\ (IsSome(l) # IsSome(c)) => IsInvalidFormat(pure.loaded)
            /\ (both /\ Len(PromotedList(l)) # Len(PromotedList(c)))
               => IsInvalidFormat(pure.loaded)
            /\ (both /\ \E p \in paths : ChildLacksIndex(p)) => IsInvalidFormat(pure.loaded)
            /\ (both /\ \E p \in paths : KindsNameNothing(p)) => IsInvalidFormat(pure.loaded)
            /\ (l = None /\ c = None)
               => pure.loaded.ok /\ pure.loaded.value[1].injections = <<>>
            /\ (both /\ Len(PromotedList(l)) = Len(PromotedList(c))
                /\ \A p \in paths : flatten_tree_path(p, <<>>, SheetLanguage).ok)
               => /\ pure.loaded.ok
                  /\ Len(pure.loaded.value[1].injections) = Len(PromotedList(l))
                  /\ \A i \in 1..Len(PromotedList(l)) :
                         /\ pure.loaded.value[1].injections[i].language
                                = PairedInjection(LoadedRecord, i).language
                         /\ pure.loaded.value[1].injections[i].content
                                = PairedInjection(LoadedRecord, i).content

----------------------------------------------------------------------------
(* C18 *)

\* The range of the root layer.
RootRanges == <<Range(0, USIZE_MAX, Point(0, 0), Point(USIZE_MAX, USIZE_MAX))>>

\* An injection declared on node n of the root tree comes to nothing: its
\* language name does not resolve, its ranges are empty, or the callback
\* returns None for the name.
IsSkipped(tree, n, injection) ==
    LET language == injection_language_string(source, tree, n, injection.language)
        nodes == nodes_for_tree_path(tree, n, injection.content)
    IN  \/ language.name = None
        \/ intersect_ranges(RootRanges, tree, nodes.nodes, injection.includes_children).ranges
               = <<>>
        \/ Unwrap(language.name) \notin DOMAIN injection_callback

\* The tree with the skipped injections not declared.
WithoutSkipped(tree) ==
    [n \in 1..Len(tree) |->
        [tree[n] EXCEPT !.props.injections =
            SelectSeq(@, LAMBDA injection : ~IsSkipped(tree, n, injection))]]

\* The layers, the root layer over the tree without the skipped injections.
LayersWithoutSkipped(ls) ==
    [i \in 1..Len(ls) |->
        IF ls[i].depth = 0 THEN [ls[i] EXCEPT !.tree = WithoutSkipped(@)] ELSE ls[i]]

\* A call of next() returns what it returns, and leaves the state it leaves,
\* on the highlighter whose tree does not declare the skipped injections.
SameAsWithoutSkipped(r) ==
    /\ result' = r.ret
    /\ LayersWithoutSkipped(layers') = r.self.layers
    /\ max_opaque_layer_depth' = r.self.max_opaque_layer_depth
    /\ source_offset' = r.self.source_offset
    /\ utf8_error_len' = r.self.utf8_error_len

\* A call of next() behaves as on the tree without the skipped injections.
C18_Step ==
    \E oracle \in Oracles(injection_callback, cancellation_flag) :
        SameAsWithoutSkipped(next([Self EXCEPT !.layers = LayersWithoutSkipped(@)], oracle))

\* No layer was installed for a name the callback does not know, and next()
\* has returned no error.
C18_NoLayerNoError ==
    /\ result.tag # "Err"
    /\ \A i \in 1..Len(log) : log[i].op = "install" => log[i].name \in DOMAIN injection_callback

\* C18 (silent skips): an injection whose language name does not resolve,
\* whose ranges are empty, or for whose name the callback returns None adds no
\* layer, leaves max_opaque_layer_depth alone and makes no error: every call
\* of next() returns the event, and leaves the layers, the opaque depth and
\* the source offset, that it would if the injection were not declared.
C18_SilentSkips == []C18_NoLayerNoError /\ [][C18_Step]_vars

\* D declares the unknown language z and another injection that comes to
\* nothing; the callback was asked for z, and D has got its HighlightStart.
C18_Witness ==
    /\ Len(root_tree[3].props.injections) = 2
    /\ \A k \in 1..2 : IsSkipped(root_tree, 3, root_tree[3].props.injections[k])
    /\ \E i \in 1..Len(log) : log[i].op = "callback" /\ log[i].name = LangZ
    /\ \E i \in 1..Len(log) : log[i].op = "HighlightStart" /\ log[i].node = 3
    /\ Len(layers) = 1
    /\ max_opaque_layer_depth = 0

----------------------------------------------------------------------------
(* C19 *)

\* The calls of injection_callback for the name during the call-th call of next().
CallbackCalls(call, name) ==
    {i \in 1..Len(log) : log[i].op = "callback" /\ log[i].call = call /\ log[i].name = name}

\* C19: during one call of next(), injection_callback is invoked at most once
\* for each distinct language name, also when several injections of the
\* current node resolve to the same name.
C19_CallbackOncePerName ==
    \A i \in 1..Len(log) :
        log[i].op = "callback" => Cardinality(CallbackCalls(log[i].call, log[i].name)) <= 1

----------------------------------------------------------------------------
(* C20 *)

\* How many times the characters of tag occur in line.
Occurrences(tag, line) ==
    Cardinality({i \in 1..(Len(line) - Len(tag) + 1) :
                    SubSeq(line, i, i + Len(tag) - 1) = tag})

\* The events that are HighlightStart or HighlightEnd, among the first k.
StartsIn(events, k) ==
    Cardinality({i \in 1..k : events[i].tag = "Ok" /\ events[i].event.kind = "HighlightStart"})
EndsIn(events, k) ==
    Cardinality({i \in 1..k : events[i].tag = "Ok" /\ events[i].event.kind = "HighlightEnd"})

\* The stream is balanced: never more ends than starts, as many at the end.
IsBalanced(events) ==
    /\ \A k \in 1..Len(events) : EndsIn(events, k) <= StartsIn(events, k)
    /\ EndsIn(events, Len(events)) = StartsIn(events, Len(events))

\* C20 (line independence): for a balanced event stream, every string
\* highlight_html returns ends with a newline and has as many <span ...> tags
\* as </span> tags.
C20_LinesIndependent ==
    (pure.fn = "highlight_html" /\ pure.returned = "Ok" /\ IsBalanced(pure.events)) =>
        \A i \in 1..Len(pure.renderer.result) :
            LET line == pure.renderer.result[i]
            IN  /\ line[Len(line)] = "\n"
                /\ Occurrences(SpanOpen, line) = Occurrences(SpanClose, line)

\* A text with a line break, a carriage return and an escaped character was
\* rendered inside a scope: two lines are returned, the scope closed at the end
\* of the first and re-opened at the start of the second.
C20_Witness ==
    /\ pure.fn = "highlight_html" /\ pure.returned = "Ok" /\ IsBalanced(pure.events)
    /\ Len(pure.renderer.result) = 2
    /\ pure.renderer.result[1] = SpanOpen \o <<"k", ">", "&", "l", "t", ";">> \o SpanClose \o <<"\n">>
    /\ pure.renderer.result[2] = SpanOpen \o <<"k", ">", "b">> \o SpanClose \o <<"\n">>

----------------------------------------------------------------------------
(* C21 *)

\* The variants other than Unknown, and the names they are written with.
KnownVariants == HighlightVariants \ {"Unknown"}
KnownWireNames == {serialize(h) : h \in KnownVariants}

\* C21 (wire-name round trip): a variant other than Unknown that is serialized
\* and deserialized comes back as itself, distinct variants are written with
\* distinct names (27 of them), Unknown is written as the empty string, and
\* every string that is not one of the 27 names is read as Unknown.
C21_WireNameRoundTrip ==
    pure.fn = "wire" =>
        /\ Cardinality(KnownVariants) = 27
        /\ \A h1, h2 \in KnownVariants : h1 # h2 => serialize(h1) # serialize(h2)
        /\ \A i \in 1..Len(pure.trail) :
              /\ (pure.trail[i].is = "Highlight" /\ pure.trail[i].v # "Unknown"
                    /\ i + 2 <= Len(pure.trail))
                  => pure.trail[i + 2] = pure.trail[i]
              /\ (pure.trail[i].is = "Highlight" /\ pure.trail[i].v = "Unknown"
                    /\ i + 1 <= Len(pure.trail))
                  => pure.trail[i + 1] = AString("")
              /\ (pure.trail[i].is = "String" /\ pure.trail[i].v \notin KnownWireNames
                    /\ i + 1 <= Len(pure.trail))
                  => pure.trail[i + 1] = AValue("Unknown")

\* Tag, the variant whose arm is out of the order of the enum, went out and back;
\* so did a string that names nothing.
C21_Witness ==
    /\ pure.fn = "wire"
    /\ \/ pure.trail = <<AValue("Tag"), AString("tag"), AValue("Tag")>>
       \/ pure.trail = <<AString("Keyword"), AValue("Unknown"), AString("")>>

----------------------------------------------------------------------------
(* C22 *)

\* The positions (node, at_node_end) the layer has occupied, in order: those
\* before each call that returned, and the present one unless the walk is over.
WalkOver == pure.rets # <<>> /\ ~pure.rets[Len(pure.rets)]
WalkPositions ==
    [i \in 1..Len(pure.before) |-> <<pure.before[i].cursor, pure.before[i].at_node_end>>]
    \o (IF WalkOver THEN <<>> ELSE <<<<pure.layer.cursor, pure.layer.at_node_end>>>>)

\* The positions of the subtree of node n in depth-first document order: the
\* start of n, the positions of its children's subtrees one child after the
\* other, the end of n.
RECURSIVE DocumentOrder(_, _)
DocumentOrder(tree, n) ==
    LET children == NodeChildren(tree, n)
    IN  <<<<n, FALSE>>>>
        \o Concat([k \in 1..Len(children) |-> DocumentOrder(tree, children[k])])
        \o <<<<n, TRUE>>>>

CountIn(s, x) == Cardinality({i \in 1..Len(s) : s[i] = x})

\* What the walk has done so far is what C22 says of it.
IsLayerWalk(tree, positions, expected) ==
    /\ Len(expected) = 2 * Len(tree)
    /\ Len(positions) <= Len(expected)
    /\ positions = SubSeq(expected, 1, Len(positions))
    /\ \A i \in 1..Len(pure.rets) :
         pure.rets[i] = ~(pure.before[i].cursor = 1 /\ pure.before[i].at_node_end)
    /\ \A a \in 1..Len(tree) : CountIn(pure.entered, a) <= 1 /\ CountIn(pure.left, a) <= 1
    /\ CountIn(pure.entered, 1) = 0
    /\ WalkOver =>
         /\ positions = expected
         /\ Len(pure.rets) = Len(expected)
         /\ \A a \in 2..Len(tree) : CountIn(pure.entered, a) = 1
         /\ \A a \in 1..Len(tree) : CountIn(pure.left, a) = 1

\* C22 (layer walk): successive advance() calls make the layer occupy the 2n
\* positions (node, phase) in depth-first document order, each once, a node's
\* start before the positions of its descendants and its end after them; every
\* call returns true but the one made at the end of the root, which returns
\* false; enter_node is called once for every node but the root and leave_node
\* once for every node.
C22_LayerWalk ==
    pure.fn = "advance" =>
        IsLayerWalk(pure.layer.tree, WalkPositions, DocumentOrder(pure.layer.tree, 1))

\* The walk over a tree of four nodes, the root with two children of which the
\* first has a child, is over.
C22_Witness ==
    /\ pure.fn = "advance" /\ WalkOver
    /\ Len(pure.layer.tree) = 4
    /\ pure.layer.tree[3].parent = 2 /\ pure.layer.tree[4].parent = 1
    /\ WalkPositions = <<<<1, FALSE>>, <<2, FALSE>>, <<3, FALSE>>, <<3, TRUE>>, <<2, TRUE>>,
                         <<4, FALSE>>, <<4, TRUE>>, <<1, TRUE>>>>

----------------------------------------------------------------------------
(* C23 *)

\* The call that ends in the primed state returned the source text before a
\* node boundary: a Source that is neither the pending replacement character
\* nor the text left when no layer remains.
ReturnsSourceBeforeBoundary ==
    /\ result'.tag = "Ok" /\ result'.event.kind = "Source"
    /\ utf8_error_len = None
    /\ layers' # <<>>

\* A HighlightStart or HighlightEnd was returned for a boundary at offset p
\* only when source_offset had reached min(source length, p).
C23_SourceReachedBoundary ==
    (result.tag = "Ok" /\ result.event.kind \in {"HighlightStart", "HighlightEnd"}) =>
        source_offset >= Min(max_len(source), log[Len(log)].offset)

\* After a Source before a boundary, the head layer stands at that boundary:
\* its node has a highlight to apply, the source text had not reached
\* min(source length, p) and has not gone past it.
C23_HeadStaysAtBoundary ==
    ReturnsSourceBeforeBoundary =>
        /\ IsSome(ApplicableHighlight(layers'[1].local_highlight, node_properties(layers'[1])))
        /\ source_offset < Min(max_len(source), offset(layers'[1]))
        /\ source_offset' <= Min(max_len(source), offset(layers'[1]))

\* C23 as stated (source precedes boundaries): a HighlightStart or
\* HighlightEnd at offset p is returned only when source_offset >= min(source
\* length, p); and a call of next() that returns a Source because
\* source_offset < min(source length, p) does not advance the cursor and the
\* phase of the head layer.
C23_HeadNotAdvancedByCall ==
    []C23_SourceReachedBoundary
    /\ [][ReturnsSourceBeforeBoundary =>
            /\ layers'[1].cursor = layers[1].cursor
            /\ layers'[1].at_node_end = layers[1].at_node_end]_vars

\* C23 (source precedes boundaries), amended: a HighlightStart or HighlightEnd
\* at offset p is returned only when source_offset >= min(source length, p);
\* and a call of next() that returns a Source because source_offset <
\* min(source length, p) leaves the head layer at the position of that
\* boundary, on the node whose highlight made it return (the call may have
\* advanced the head up to that boundary over nodes without a highlight).
C23_SourcePrecedesBoundaries ==
    []C23_SourceReachedBoundary /\ [][C23_HeadStaysAtBoundary]_vars

\* The second call returned the HighlightStart of D at offset 1, after the
\* first had walked over the root and A and returned the Source "a".
C23_Witness ==
    /\ calls = 2
    /\ result.tag = "Ok" /\ result.event.kind = "HighlightStart"
    /\ log[Len(log)].offset = 1 /\ log[Len(log)].node = 3
    /\ \E i \in 1..Len(log) : log[i].op = "Source" /\ log[i].call = 1 /\ log[i].text = <<97>>
    /\ source_offset = 1

----------------------------------------------------------------------------
(* C24 *)

\* The head layer is below an opaque layer: depth < max_opaque_layer_depth.
HeadIsInvisible == layers # <<>> /\ layers[1].depth < max_opaque_layer_depth

\* The call that ends in the primed state returned r.ret and left the
\* Highlighter and the history as r.self has them.
SameCallAs(r) ==
    /\ result' = r.ret
    /\ layers' = r.self.layers
    /\ max_opaque_layer_depth' = r.self.max_opaque_layer_depth
    /\ source_offset' = r.self.source_offset
    /\ utf8_error_len' = r.self.utf8_error_len
    /\ log' = (IF r.ret.tag = "Ok" THEN r.self.log
               ELSE Append(r.self.log, LogEntry(r.self.calls, r.ret.tag, None, <<>>,
                                                source_offset, 0, FALSE, <<>>, 0)))

\* A call of next() that finds an invisible head does what it would do had the
\* head already been advanced and re-sorted, or removed: processing the head
\* added no event, no layer, no callback call and no source text.
C24_Step ==
    (HeadIsInvisible /\ utf8_error_len = None) =>
        \E oracle \in Oracles(injection_callback, cancellation_flag) :
            SameCallAs(next(AdvanceFirstLayer(Self), oracle))

\* C24 (invisible layers): when the head layer has depth <
\* max_opaque_layer_depth, processing it advances its cursor (or removes it)
\* and re-sorts the list, but emits no event, adds no layer, calls no injection
\* callback and leaves source_offset unchanged.
C24_InvisibleLayers == [][C24_Step]_vars

\* D has a highlighted child and an opaque layer was installed over D: the
\* iteration has ended and the root layer has gone over the child, invisible,
\* without an event for it.
C24_Witness ==
    /\ result.tag = "None"
    /\ Len(root_tree) = 5 /\ root_tree[4].parent = 3 /\ IsSome(root_tree[4].props.highlight)
    /\ root_tree[4].start_byte < root_tree[4].end_byte
    /\ \E i \in 1..Len(log) : log[i].op = "install" /\ log[i].depth = 1 /\ log[i].node = 3
    /\ \A i \in 1..Len(log) :
          ~(log[i].op \in {"HighlightStart", "HighlightEnd"} /\ log[i].depth = 0 /\ log[i].node = 4)

----------------------------------------------------------------------------
(* C25 *)

\* How many layers the history shows installed for the injections of node n
\* of the root tree.
InstallsFor(n) ==
    Cardinality({i \in 1..Len(log) : log[i].op = "install" /\ log[i].depth = 1 /\ log[i].node = n})

\* C25 (single installation of injections): over a whole iteration every
\* injection declared on a node of the root layer leads to at most one
\* add_layer call, so at most one new layer; a call of next() that installs
\* the injections of a node and returns a Source is not followed by a second
\* installation of the same injections.
C25_SingleInstallation ==
    \A n \in 1..Len(root_tree) : InstallsFor(n) <= Len(root_tree[n].props.injections)

----------------------------------------------------------------------------
(* C26 *)

\* The head is visible and at the start of a node: the next call of next()
\* installs the injections of that node first.
HeadInstallsInjections ==
    /\ layers # <<>> /\ ~Ended /\ utf8_error_len = None
    /\ IsVisible(layers[1], max_opaque_layer_depth)
    /\ ~layers[1].at_node_end

\* The layers after the add_layer calls for the injections of the head's node.
LayersAfterInstalling(oracle) ==
    AddLayers(Self, GatherInjections(Self, layers[1]).items, 1, layers[1].depth + 1,
              oracle).self.layers

\* C26 (head stability under insertion): no layer made by add_layer is
\* inserted at index 0: after the injections of the head's node are installed,
\* layers[0] is still the layer whose node declared them, and the layers that
\* were there follow it in the order they had.
C26_HeadStableUnderInsertion ==
    HeadInstallsInjections =>
        \A oracle \in Oracles(injection_callback, cancellation_flag) :
            LET after == LayersAfterInstalling(oracle)
            IN  /\ after[1] = layers[1]
                /\ \A i \in 1..Len(after) : after[i].depth = layers[1].depth + 1 => i > 1

\* The injections of D were installed by the call that has just returned a
\* Source: the root layer, at the start of D, is still first, before the new layer.
C26_Witness ==
    /\ result.tag = "Ok" /\ result.event.kind = "Source"
    /\ \E i \in 1..Len(log) : log[i].op = "install" /\ log[i].call = calls /\ log[i].node = 3
    /\ Len(layers) = 2
    /\ layers[1].depth = 0 /\ layers[1].cursor = 3 /\ ~layers[1].at_node_end
    /\ layers[2].depth = 1 /\ offset(layers[2]) = offset(layers[1])
    /\ HeadInstallsInjections
    /\ \E oracle \in Oracles(injection_callback, cancellation_flag) :
          Len(LayersAfterInstalling(oracle)) = 3

----------------------------------------------------------------------------
(* C27 *)

\* The last call of advance() entered the node the layer is at.
HasEnteredNode ==
    /\ pure.fn = "advance" /\ pure.before # <<>>
    /\ pure.layer.cursor # 1 /\ ~pure.layer.at_node_end

\* The scope stack enter_node found: that of the layer before the call, its
\* node left first if the layer was at the end of it.
ScopeStackAtEntry ==
    LET prev == pure.before[Len(pure.before)]
    IN  IF prev.at_node_end THEN leave_node(prev).scope_stack ELSE prev.scope_stack

\* C27 (definition-or-reference dispatch): the node just entered has
\* local_reference; unless it has local_definition and a highlight from the
\* sheet, its text was looked up in the scope stack, and local_highlight is the
\* highlight of the matching definition in scope, if there is one.
C27_ReferenceLookupDispatch ==
    HasEnteredNode =>
        LET props == node_properties(pure.layer)
            text == NodeText(pure.layer.tree, pure.src, pure.layer.cursor)
        IN  (props.local_reference /\ ~(props.local_definition /\ IsSome(props.highlight)))
            => pure.layer.local_highlight
                 = LookupReference(ScopeStackAtEntry, Len(ScopeStackAtEntry), text)

----------------------------------------------------------------------------
(* C28 *)

\* local_defs is sorted by text and holds no text twice.
IsSortedByText(local_defs) ==
    \A i \in 1..(Len(local_defs) - 1) : StrCmp(local_defs[i][1], local_defs[i + 1][1]) < 0

\* The scope `after` is the scope `before` with (text, h) added, unless before
\* binds text already, and then it is before.
HasInserted(before, after, text, h) ==
    LET bound == \E i \in 1..Len(before.local_defs) : before.local_defs[i][1] = text
        Set(defs) == {defs[i] : i \in 1..Len(defs)}
    IN  /\ after.inherits = before.inherits
        /\ IF bound THEN after.local_defs = before.local_defs
           ELSE /\ Len(after.local_defs) = Len(before.local_defs) + 1
                /\ Set(after.local_defs) = Set(before.local_defs) \cup {<<text, h>>}

\* What C28 says of the scope stack `now` left by the entry into a definition
\* with the properties props, found with the scope stack `stack`.
IsDefinitionInserted(stack, now, props, text) ==
    /\ stack # <<>>
    /\ Len(now) = Len(stack) + (IF IsSome(props.local_scope) THEN 1 ELSE 0)
    /\ \A k \in 1..(Len(stack) - 1) : now[k] = stack[k]
    /\ HasInserted(stack[Len(stack)], now[Len(stack)], text, Unwrap(props.highlight))
    /\ IsSome(props.local_scope) => now[Len(now)] = Scope(Unwrap(props.local_scope), <<>>)

\* C28 (definition insertion): entering a node with local_definition and a
\* highlight h inserts (text, h) into the innermost scope of the stack as it
\* is at the entry, before the node's own scope is pushed, and leaves the outer
\* scopes as they are; a text that scope binds already keeps its binding; the
\* local_defs of every scope are sorted by text, without a text twice.
C28_DefinitionInsertion ==
    pure.fn = "advance" =>
        /\ \A k \in 1..Len(pure.layer.scope_stack) :
              IsSortedByText(pure.layer.scope_stack[k].local_defs)
        /\ (HasEnteredNode /\ node_properties(pure.layer).local_definition
                /\ IsSome(node_properties(pure.layer).highlight))
           => IsDefinitionInserted(ScopeStackAtEntry, pure.layer.scope_stack,
                                   node_properties(pure.layer),
                                   NodeText(pure.layer.tree, pure.src, pure.layer.cursor))

\* A definition of "a" with the highlight function was entered in the inner of
\* two scopes, which bound "a" to variable.parameter: the stack is as it was.
C28_Witness ==
    /\ HasEnteredNode
    /\ node_properties(pure.layer).local_definition
    /\ node_properties(pure.layer).highlight = Some("function")
    /\ NodeText(pure.layer.tree, pure.src, pure.layer.cursor) = <<97>>
    /\ Len(pure.layer.scope_stack) = 2
    /\ pure.layer.scope_stack[2].local_defs = <<<<<<97>>, "variable.parameter">>>>
    /\ ScopeStackAtEntry = pure.layer.scope_stack

----------------------------------------------------------------------------
(* C29 *)

\* The nodes with local_scope that enter_node was called at and leave_node was
\* not: the scopes that are open.
OpenScopes ==
    {n \in 1..Len(pure.layer.tree) :
        /\ IsSome(pure.layer.tree[n].props.local_scope)
        /\ \E i \in 1..Len(pure.entered) : pure.entered[i] = n
        /\ \A i \in 1..Len(pure.left) : pure.left[i] # n}

\* C29 (scope stack balance): in every state reached by advance() calls the
\* scope stack is not empty, the scope Layer::new made is at its bottom, and
\* its length is 1 plus the number of nodes with local_scope entered and not
\* yet left; so too when the root node has local_scope.
C29_ScopeStackBalance ==
    pure.fn = "advance" =>
        /\ pure.layer.scope_stack # <<>>
        /\ ~pure.layer.scope_stack[1].inherits
        /\ Len(pure.layer.scope_stack) = 1 + Cardinality(OpenScopes)

----------------------------------------------------------------------------
(* C30 *)

\* next() has returned the end of the stream, no layer is left and the whole
\* source has been emitted.
EndOfStream ==
    result.tag = "None" /\ layers = <<>> /\ source_offset = max_len(source)

\* No language the callback knows declares an injection.
InjectedLanguagesInjectNothing ==
    \A name \in DOMAIN injection_callback :
        /\ injection_callback[name].root_props.injections = <<>>
        /\ injection_callback[name].token_props # None
             => Unwrap(injection_callback[name].token_props).injections = <<>>

\* Every layer was created for an injection that a node of the root tree
\* declares, by a call of next() that was at the start of that node.
LayersComeFromRootTree ==
    \A i \in 1..Len(log) :
        log[i].op = "install" =>
            /\ log[i].depth = 1
            /\ root_tree[log[i].node].props.injections # <<>>
            /\ log[i].call <= 2 * Len(root_tree)

\* C30 (termination): on a finite tree and a source that is valid UTF-8,
\* every call of next() returns, and after finitely many calls next() returns
\* the end of the stream, with no layer left and source_offset the length of
\* the source; and when the injected languages declare no injections the
\* layers are created by the injections of the root tree only, each by one of
\* a bounded number of calls.
C30_Termination ==
    /\ <>[]EndOfStream
    /\ [](InjectedLanguagesInjectNothing => LayersComeFromRootTree)

\* The iteration over a tree whose node D injects x and then y has ended: two
\* layers or more were created and none is left.
C30_Witness ==
    /\ EndOfStream
    /\ Cardinality({i \in 1..Len(log) : log[i].op = "install"}) >= 2
    /\ \E i \in 1..Len(log) : log[i].op = "Source" /\ log[i].call = calls - 1

----------------------------------------------------------------------------
(* C31 *)

\* The first parent range that intersect_ranges takes for every injection
\* the current node of `layer` declares is there: the expect does not fail.
ExpectHolds(layer) ==
    \A i \in 1..Len(node_properties(layer).injections) :
        LET injection == node_properties(layer).injections[i]
            nodes == nodes_for_tree_path(layer.tree, layer.cursor, injection.content)
        IN  ~intersect_ranges(layer.ranges, layer.tree, nodes.nodes,
                              injection.includes_children).panicked

\* C31: in every reachable state every layer of the list has a non-empty
\* ranges vector, the root layer exactly the one range [0, MAX), so that the
\* expect on the first parent range in intersect_ranges fails for no layer.
C31_NonEmptyRanges ==
    \A i \in 1..Len(layers) :
        /\ layers[i].ranges # <<>>
        /\ layers[i].depth = 0 => layers[i].ranges = RootRanges
        /\ ExpectHolds(layers[i])

\* An injected layer, itself the head, stands at a node that declares an
\* injection: its ranges, fewer than the whole document, are the parent
\* ranges of intersect_ranges.
C31_Witness ==
    /\ Len(layers) >= 2
    /\ layers[1].depth >= 1
    /\ ~layers[1].at_node_end
    /\ node_properties(layers[1]).injections # <<>>
    /\ layers[1].ranges # RootRanges
    /\ layers[1].ranges # <<>>

----------------------------------------------------------------------------
(* C32 *)

\* The load pairs n languages with n contents: both fields are present, of
\* equal promoted length, without a list in a list, and every tree path flattens.
PairsInjections(record) ==
    /\ IsSome(record.injection_language) /\ IsSome(record.injection_content)
    /\ ~HasListOfLists(record.injection_language)
    /\ ~HasListOfLists(record.injection_content)
    /\ Len(PromotedList(record.injection_language))
           = Len(PromotedList(record.injection_content))
    /\ \A p \in PathsOfField(record.injection_language)
                    \cup PathsOfField(record.injection_content) :
           flatten_tree_path(p, <<>>, SheetLanguage).ok

\* includes_children of the i-th injection (counted from 1) as the
\* broadcasting rule gives it: false when the field is omitted, b for a single
\* boolean b, the i-th element of a list that has one and its first otherwise.
Broadcast(field, i) ==
    IF field = None THEN FALSE
    ELSE IF Unwrap(field).json = "Single" THEN Unwrap(field).v[1]
    ELSE IF i <= Len(Unwrap(field).v) THEN Unwrap(field).v[i]
    ELSE Unwrap(field).v[1]

\* The i-th injection was loaded with includes_children as the rule gives it;
\* for an empty list, which has no first element, only where it has to be given.
BroadcastAt(record, loaded, i) ==
    \/ /\ IsSome(record.injection_includes_children)
       /\ Unwrap(record.injection_includes_children).v = <<>>
    \/ loaded.value[1].injections[i].includes_children
           = Broadcast(record.injection_includes_children, i)

\* C32: whatever injection-includes-children is (omitted, a single boolean, a
\* list of any length, the empty list and lists longer than n included), a
\* sheet that pairs n injections loads without failure, and injection i gets
\* false when the field is omitted, b for a single boolean b, and for a list v
\* the element v[i] when the list has one and v[0] otherwise.
C32_IncludesChildrenBroadcast ==
    (LoadDone /\ PairsInjections(LoadedRecord)) =>
        /\ pure.loaded.ok
        /\ Len(pure.loaded.value[1].injections)
               = Len(PromotedList(LoadedRecord.injection_language))
        /\ \A i \in 1..Len(pure.loaded.value[1].injections) :
               BroadcastAt(LoadedRecord, pure.loaded, i)

----------------------------------------------------------------------------
(* C33 *)

\* The boundary before which source text is returned: the offset of the head
\* layer, capped by the source length, or the source length when no layer is left.
HeadBoundary ==
    IF layers = <<>> THEN max_len(source) ELSE Min(max_len(source), offset(layers[1]))

\* source_offset does not exceed the source length, nor, after a Source event,
\* the boundary before which the text was returned.
C33_OffsetWithinBounds ==
    /\ source_offset <= max_len(source)
    /\ (result.tag = "Ok" /\ result.event.kind = "Source") => source_offset <= HeadBoundary

\* The call that ends in the primed state was cancelled.
IsCancelledCall == result'.tag = "Err" /\ result'.err = "Cancelled"

\* No step decreases source_offset; a call of next() that finds a pending
\* utf8_error_len and is not cancelled consumes it, returns the replacement
\* character and moves source_offset by that length, not past the end.
C33_OffsetStep ==
    /\ source_offset' >= source_offset
    /\ (IsSome(utf8_error_len) /\ calls' = calls + 1 /\ ~IsCancelledCall) =>
           /\ utf8_error_len' = None
           /\ result' = RetOk(Source(REPLACEMENT_CHARACTER_TEXT))
           /\ source_offset' = source_offset + Unwrap(utf8_error_len)
           /\ source_offset' <= max_len(source)

\* C33 (source_offset bounds): across any sequence of next() calls
\* source_offset never decreases, never exceeds the source length, and after a
\* Source event does not exceed the head boundary offset that made next()
\* return it; a pending utf8_error_len is consumed by the next call of next()
\* that is not cancelled, and does not move source_offset past the end.
C33_SourceOffsetBounds == []C33_OffsetWithinBounds /\ [][C33_OffsetStep]_vars

\* The hundredth call, the one that checks the flag and finds it zero, has
\* consumed the error length left pending by the Source of the valid prefix
\* "a": the replacement character is returned and source_offset is 1.
C33_Witness ==
    /\ source = OffsetsSource
    /\ cancellation_flag = Some(0)
    /\ calls = CANCELLATION_CHECK_INTERVAL
    /\ operation_count = 0
    /\ result = RetOk(Source(REPLACEMENT_CHARACTER_TEXT))
    /\ utf8_error_len = None
    /\ source_offset = 1

========================================================================
